---- MODULE Spec2Model ----
(***************************************************************************)
(* Level aggregation engine of the orderbook proxy, and the proxy's        *)
(* request handler.                                                        *)
(*                                                                         *)
(* Four variants of api/orderbook.ts are modelled:                         *)
(*   "equalVolume"  compressLevels                (src/api/orderbook.ts)   *)
(*   "range"        compressLevelsByPriceImpact   (src/api/orderbook.ts)   *)
(*   "threshold"    compressLevelsByPriceImpact   (src/unnamed/part_002)   *)
(*   "proxy"        handler without an engine     (src/unnamed/part_001)   *)
(*                                                                         *)
(* Numbers.  JavaScript numbers are modelled as exact rationals <<n, d>>   *)
(* with d > 0 in lowest terms, so that equal numbers are equal tuples.     *)
(* Rounding of IEEE doubles is not modelled: every statement below is a    *)
(* statement about the code in exact arithmetic.                           *)
(***************************************************************************)
EXTENDS Integers, Sequences, FiniteSets, TLC

VARIABLES
    policy,      \* which variant of api/orderbook.ts is deployed
    pc,          \* position of the computation
    levels,      \* argument of the compress function
    midPrice,    \* argument midPrice (NullMid where the variant takes none)
    side,        \* argument side
    compressed,  \* value returned by the compress function
    bands,       \* range policy: per band, the indices of the levels accumulated
    recompressed,  \* threshold policy: value returned for the returned levels
    amountUnit,  \* equal volume: what the amount 1 of the model stands for
    data,        \* argument of reshapeOrderbook
    pairMap,     \* reshapeOrderbook: pairKey -> [bid, ask]
    idx,         \* reshapeOrderbook: number of entries the current pass has consumed
    result,      \* reshapeOrderbook: the output array
    mids,        \* reshapeOrderbook: calculateMidPrice's value, per consumed entry
    created,     \* reshapeOrderbook: per element of result, whether it is a new
                 \* object (TRUE) or the input's own entry object (FALSE)
    client,      \* the fetch call of the client that issues the request
    request,     \* handler: the request (method, query)
    env,         \* handler: process.env
    hpc,         \* handler: position of the invocation
    delay,       \* handler: the timeout given to setTimeout, in ms
    upstreamRequest,  \* handler: the request sent to the upstream
    upstream,    \* what the upstream does with that request
    steps,       \* handler: the steps of the try block performed so far
    sent,        \* handler: the responses sent to the client
    previous,    \* the previous invocation, once the request is repeated
    upc,         \* UI: position of the component (rendered, mounted, ready)
    opened,      \* UI: the URL parameters the page was opened with
    location,    \* UI: the URL parameters of window.location
    state,       \* UI: the component's state (the useState values)
    isInitialMount,  \* UI: isInitialMount.current
    pending,     \* UI: state updates queued by the first commit
    intervals,   \* UI: the active intervals
    cleanup,     \* UI: the interval the auto-refresh effect's cleanup clears
    inflight,    \* UI: the fetches in flight
    issued,      \* UI: number of fetches issued
    settled,     \* UI: the fetches settled, each with its outcome
    touched      \* UI: the user has used the controls

compressVars == <<levels, midPrice, side, compressed, bands, recompressed,
                  amountUnit>>
reshapeVars == <<data, pairMap, idx, result, mids, created>>
handlerVars == <<client, request, env, hpc, delay, upstreamRequest, upstream,
                 steps, sent, previous>>
uiVars == <<upc, opened, location, state, isInitialMount, pending, intervals,
            cleanup, inflight, issued, settled, touched>>
vars == <<policy, pc, levels, midPrice, side, compressed, bands, recompressed,
          amountUnit,
          data, pairMap, idx, result, mids, created,
          client, request, env, hpc, delay, upstreamRequest, upstream,
          steps, sent, previous,
          upc, opened, location, state, isInitialMount, pending, intervals,
          cleanup, inflight, issued, settled, touched>>

\* null, where a number is expected and where an entry is expected.
NullMid == <<>>
NullEntry == [null |-> TRUE]

\* undefined / not yet there, where a record is expected, and where a number
\* of milliseconds is expected.
None == [none |-> TRUE]
NoDelay == <<>>

\* The handler variables where no request is handled.
HandlerOff ==
    /\ client = None
    /\ request = None
    /\ env = None
    /\ hpc = "off"
    /\ delay = NoDelay
    /\ upstreamRequest = None
    /\ upstream = None
    /\ steps = <<>>
    /\ sent = <<>>
    /\ previous = None

\* The UI variables where no page is open.
UIOff ==
    /\ upc = "off"
    /\ opened = None
    /\ location = None
    /\ state = None
    /\ isInitialMount = TRUE
    /\ pending = None
    /\ intervals = {}
    /\ cleanup = 0
    /\ inflight = {}
    /\ issued = 0
    /\ settled = {}
    /\ touched = FALSE

(***************************************************************************)
(* Bounds of the model.                                                    *)
(***************************************************************************)
MaxEVLevels == 6
MaxEVAmount == 2
MaxLevels == 2
MaxAmount == 1
MaxEntries == 3

(***************************************************************************)
(* Exact rational arithmetic.                                              *)
(***************************************************************************)
Abs(n) == IF n < 0 THEN -n ELSE n

\* Euclid's algorithm.  The arithmetic is written as functions, whose
\* arguments are evaluated once, with operators of the same names on top.
GCDOf[a \in Nat, b \in Nat] == IF b = 0 THEN a ELSE GCDOf[b, a % b]
GCD(a, b) == GCDOf[a, b]

RatOf[n \in Int, d \in Int] ==
    LET g == GCDOf[Abs(n), Abs(d)]
        s == IF d < 0 THEN -1 ELSE 1
    IN  <<(s * n) \div g, (s * d) \div g>>
Rat(n, d) == RatOf[n, d]

Int2Rat(n) == <<n, 1>>
Zero == <<0, 1>>
Q == Int \X Int
Arith[op \in {"+", "-", "*", "/"}, x \in Q, y \in Q] ==
    CASE op = "+" -> RatOf[x[1] * y[2] + y[1] * x[2], x[2] * y[2]]
      [] op = "-" -> RatOf[x[1] * y[2] - y[1] * x[2], x[2] * y[2]]
      [] op = "*" -> RatOf[x[1] * y[1], x[2] * y[2]]
      [] op = "/" -> RatOf[x[1] * y[2], x[2] * y[1]]
Less[orEqual \in BOOLEAN, x \in Q, y \in Q] ==
    IF orEqual THEN x[1] * y[2] <= y[1] * x[2] ELSE x[1] * y[2] < y[1] * x[2]
RAdd(x, y) == Arith["+", x, y]
RSub(x, y) == Arith["-", x, y]
RMul(x, y) == Arith["*", x, y]
RDiv(x, y) == Arith["/", x, y]
RLt(x, y) == Less[FALSE, x, y]
RLe(x, y) == Less[TRUE, x, y]

RMin(x, y) == IF RLe(x, y) THEN x ELSE y

(***************************************************************************)
(* x >= y - 1e-10 and x > 1e-10, for amounts x and y.                      *)
(*                                                                         *)
(* compressLevels is linear in the amounts but for these two comparisons,  *)
(* so amounts a * u with 1e-10 behave as amounts a with 1e-10 / u.  The    *)
(* amounts of the model are numbers of units u = amountUnit.               *)
(* Unit 1: with x - y = n/d in lowest terms, n/d >= -1/10^10 iff n >= 0 or *)
(* |n| * 10^10 <= d; every denominator of the model is below 2^31 < 10^10, *)
(* so the second case never holds, and likewise n/d > 1/10^10 iff n > 0.   *)
(* Unit 1e-11: 1e-10 is 10 units.                                          *)
(***************************************************************************)
AmountUnits == {"1", "1e-11"}
EpsilonInUnits == Int2Rat(10)

GeqMinusEps(x, y) ==
    IF amountUnit = "1e-11"
    THEN RLe(RSub(y, x), EpsilonInUnits)
    ELSE RSub(x, y)[1] >= 0
GtEps(x) ==
    IF amountUnit = "1e-11"
    THEN RLt(EpsilonInUnits, x)
    ELSE x[1] > 0

RECURSIVE SumFrom(_, _, _)
SumFrom(s, k, i) ==
    IF i > Len(s) THEN Zero ELSE RAdd(s[i][k], SumFrom(s, k, i + 1))

\* The sum of component k of every element of s.
SumField(s, k) == SumFrom(s, k, 1)

(***************************************************************************)
(* Equal-volume policy: compressLevels.  A level is <<price, amount>>.     *)
(***************************************************************************)
TargetCount(n) == IF n >= 2 /\ n <= 5 THEN 2 ELSE 3

AvgPrice(weightedPriceSum, accumulatedAmount, price) ==
    IF RLt(Zero, accumulatedAmount)
    THEN RDiv(weightedPriceSum, accumulatedAmount)
    ELSE price

\* The inner while loop: the rest of a level that spans several buckets.
\* s is the loop state [levelIndex, accumulatedAmount, weightedPriceSum, compressed].
RECURSIVE FillRemainingBuckets(_, _, _, _, _)
FillRemainingBuckets(price, amountPerLevel, targetCount, remainingAmount, s) ==
    IF RLt(Zero, remainingAmount) /\ s.levelIndex < targetCount
    THEN LET amountForThisBucket == RMin(remainingAmount, amountPerLevel)
             wps == RAdd(s.weightedPriceSum, RMul(price, amountForThisBucket))
             acc == amountForThisBucket
             rem == RSub(remainingAmount, amountForThisBucket)
         IN  IF GeqMinusEps(acc, amountPerLevel) \/ rem = Zero
             THEN LET pushed == Append(s.compressed, <<AvgPrice(wps, acc, price), acc>>)
                  IN  IF s.levelIndex < targetCount - 1
                      THEN FillRemainingBuckets(price, amountPerLevel, targetCount, rem,
                               [levelIndex |-> s.levelIndex + 1,
                                accumulatedAmount |-> Zero,
                                weightedPriceSum |-> Zero,
                                compressed |-> pushed])
                      ELSE FillRemainingBuckets(price, amountPerLevel, targetCount, rem,
                               [levelIndex |-> s.levelIndex,
                                accumulatedAmount |-> acc,
                                weightedPriceSum |-> wps,
                                compressed |-> pushed])
             ELSE FillRemainingBuckets(price, amountPerLevel, targetCount, rem,
                      [levelIndex |-> s.levelIndex,
                       accumulatedAmount |-> acc,
                       weightedPriceSum |-> wps,
                       compressed |-> s.compressed])
    ELSE s

\* One iteration of the for loop, on level lv = in[i]; last iff i = in.length - 1.
BucketStep(lv, last, amountPerLevel, targetCount, s) ==
    LET price == lv[1]
        amount == lv[2]
        remainingForCurrentLevel == RSub(amountPerLevel, s.accumulatedAmount)
    IN  IF RLe(amount, remainingForCurrentLevel)
        THEN LET wps == RAdd(s.weightedPriceSum, RMul(price, amount))
                 acc == RAdd(s.accumulatedAmount, amount)
             IN  IF GeqMinusEps(acc, amountPerLevel) \/ last
                 THEN [levelIndex |-> s.levelIndex + 1,
                       accumulatedAmount |-> Zero,
                       weightedPriceSum |-> Zero,
                       compressed |-> Append(s.compressed, <<AvgPrice(wps, acc, price), acc>>)]
                 ELSE [s EXCEPT !.accumulatedAmount = acc, !.weightedPriceSum = wps]
        ELSE LET amountForCurrentBucket == remainingForCurrentLevel
                 wps == RAdd(s.weightedPriceSum, RMul(price, amountForCurrentBucket))
                 acc == RAdd(s.accumulatedAmount, amountForCurrentBucket)
             IN  FillRemainingBuckets(price, amountPerLevel, targetCount,
                     RSub(amount, amountForCurrentBucket),
                     [levelIndex |-> s.levelIndex + 1,
                      accumulatedAmount |-> Zero,
                      weightedPriceSum |-> Zero,
                      compressed |-> Append(s.compressed, <<AvgPrice(wps, acc, price), acc>>)])

\* The for loop from index i (1-based) on.
RECURSIVE BucketLoop(_, _, _, _, _)
BucketLoop(in, i, amountPerLevel, targetCount, s) ==
    IF i <= Len(in) /\ s.levelIndex < targetCount
    THEN CHOOSE r \in {BucketLoop(in, i + 1, amountPerLevel, targetCount, t) :
                          t \in {BucketStep(in[i], i = Len(in), amountPerLevel,
                                            targetCount, s)}} : TRUE
    ELSE s

\* The final flush after the loop.
FlushRemaining(in, targetCount, s) ==
    IF GtEps(s.accumulatedAmount) /\ Len(s.compressed) < targetCount
    THEN Append(s.compressed,
             <<AvgPrice(s.weightedPriceSum, s.accumulatedAmount, in[Len(in)][1]),
               s.accumulatedAmount>>)
    ELSE s.compressed

compressLevels(in) ==
    IF Len(in) = 0 THEN <<>>
    ELSE IF Len(in) = 1 THEN in
    ELSE IF Len(in) <= TargetCount(Len(in)) THEN in
    ELSE LET targetCount == TargetCount(Len(in))
             totalAmount == SumField(in, 2)
             amountPerLevel == RDiv(totalAmount, Int2Rat(targetCount))
         IN  FlushRemaining(in, targetCount,
                 BucketLoop(in, 1, amountPerLevel, targetCount,
                     [levelIndex |-> 0,
                      accumulatedAmount |-> Zero,
                      weightedPriceSum |-> Zero,
                      compressed |-> <<>>]))

(***************************************************************************)
(* Range policy: compressLevelsByPriceImpact of src/api/orderbook.ts.      *)
(* A level is <<amount, price>>.                                           *)
(***************************************************************************)
One == <<1, 1>>
priceImpacts == <<Rat(1, 1000), Rat(5, 1000), Rat(2, 100)>>

targetPrice(mid, sd, impact) ==
    IF sd = "bid"
    THEN RMul(mid, RSub(One, impact))
    ELSE RMul(mid, RAdd(One, impact))

\* Mutants of isInRange: the near bound made strict; the far bound left out.
isInRange_StrictTarget(price, mid, sd, impact) ==
    IF sd = "bid"
    THEN /\ RLt(price, targetPrice(mid, sd, impact))
         /\ RLt(RMul(mid, RSub(One, RMul(impact, Int2Rat(2)))), price)
    ELSE /\ RLt(targetPrice(mid, sd, impact), price)
         /\ RLt(price, RMul(mid, RAdd(One, RMul(impact, Int2Rat(2)))))

isInRange_NoOuterBound(price, mid, sd, impact) ==
    IF sd = "bid"
    THEN RLe(price, targetPrice(mid, sd, impact))
    ELSE RLe(targetPrice(mid, sd, impact), price)

\* Mutant: the near bound of a band is the mid price itself.
isInRange_FromMid(price, mid, sd, impact) ==
    IF sd = "bid"
    THEN /\ RLe(price, mid)
         /\ RLt(RMul(mid, RSub(One, RMul(impact, Int2Rat(2)))), price)
    ELSE /\ RLe(mid, price)
         /\ RLt(price, RMul(mid, RAdd(One, RMul(impact, Int2Rat(2)))))

isInRange(price, mid, sd, impact) ==
    IF sd = "bid"
    THEN /\ RLe(price, targetPrice(mid, sd, impact))
         /\ RLt(RMul(mid, RSub(One, RMul(impact, Int2Rat(2)))), price)
    ELSE /\ RLe(targetPrice(mid, sd, impact), price)
         /\ RLt(price, RMul(mid, RAdd(One, RMul(impact, Int2Rat(2)))))

\* The indices of the levels the inner loop accumulates for one impact.
BandLevels(in, mid, sd, impact) ==
    {j \in 1..Len(in) : isInRange(in[j][2], mid, sd, impact)}

RECURSIVE AccumulateFrom(_, _, _, _)
\* Over the levels of in with an index in js, in input order from j on:
\* <<sum of amount, sum of price * amount>>.
AccumulateFrom(in, js, j, acc) ==
    IF j > Len(in) THEN acc
    ELSE AccumulateFrom(in, js, j + 1,
             IF j \in js
             THEN <<RAdd(acc[1], in[j][1]), RAdd(acc[2], RMul(in[j][2], in[j][1]))>>
             ELSE acc)

Accumulate(in, js) == AccumulateFrom(in, js, 1, <<Zero, Zero>>)

\* One pass of the outer loop: the level pushed for one impact, if any.
RangeBand(in, mid, sd, impact) ==
    LET js == BandLevels(in, mid, sd, impact)
        acc == Accumulate(in, js)
        hasLevels == js # {}
    IN  IF hasLevels /\ RLt(Zero, acc[1])
        THEN << <<acc[1], RDiv(acc[2], acc[1])>> >>
        ELSE <<>>

\* Mutant: a single level is returned as it is, as the threshold variant does.
compressLevelsByPriceImpactRange_SingleAsIs(in, mid, sd) ==
    IF Len(in) = 0 THEN <<>>
    ELSE IF Len(in) = 1 THEN in
    ELSE RangeBand(in, mid, sd, priceImpacts[1])
           \o RangeBand(in, mid, sd, priceImpacts[2])
           \o RangeBand(in, mid, sd, priceImpacts[3])

compressLevelsByPriceImpactRange(in, mid, sd) ==
    IF Len(in) = 0 THEN <<>>
    ELSE RangeBand(in, mid, sd, priceImpacts[1])
           \o RangeBand(in, mid, sd, priceImpacts[2])
           \o RangeBand(in, mid, sd, priceImpacts[3])

(***************************************************************************)
(* Threshold policy: compressLevelsByPriceImpact of src/unnamed/part_002.  *)
(* A level is <<amount, price>>.                                           *)
(***************************************************************************)
thresholds == <<Rat(1, 1000), Rat(1, 100)>>

priceImpact(price, mid, sd) ==
    IF sd = "bid"
    THEN RDiv(RSub(mid, price), mid)
    ELSE RDiv(RSub(price, mid), mid)

\* Mutants of BucketOf: the last bucket tested as impact > 1% (a level at
\* exactly 1% falls into no bucket); the first threshold tested with <=.
BucketOf_NoCatchAll(price, mid, sd) ==
    IF RLt(priceImpact(price, mid, sd), thresholds[1]) THEN 1
    ELSE IF RLt(priceImpact(price, mid, sd), thresholds[2]) THEN 2
    ELSE IF RLt(thresholds[2], priceImpact(price, mid, sd)) THEN 3
    ELSE 0

BucketOf_Inclusive(price, mid, sd) ==
    IF RLe(priceImpact(price, mid, sd), thresholds[1]) THEN 1
    ELSE IF RLt(priceImpact(price, mid, sd), thresholds[2]) THEN 2
    ELSE 3

\* The bucket (1, 2 or 3) the if/else-if/else chain selects for a level.
BucketOf(price, mid, sd) ==
    IF RLt(priceImpact(price, mid, sd), thresholds[1]) THEN 1
    ELSE IF RLt(priceImpact(price, mid, sd), thresholds[2]) THEN 2
    ELSE 3

BucketLevels(in, mid, sd, b) ==
    {j \in 1..Len(in) : BucketOf(in[j][2], mid, sd) = b}

\* Mutant: the sum of a bucket is pushed as its price, undivided.
ThresholdBucket_Undivided(in, mid, sd, b) ==
    LET acc == Accumulate(in, BucketLevels(in, mid, sd, b))
    IN  IF RLt(Zero, acc[1])
        THEN << <<acc[1], acc[2]>> >>
        ELSE <<>>

\* The level pushed for bucket b, if any.
ThresholdBucket(in, mid, sd, b) ==
    LET acc == Accumulate(in, BucketLevels(in, mid, sd, b))
    IN  IF RLt(Zero, acc[1])
        THEN << <<acc[1], RDiv(acc[2], acc[1])>> >>
        ELSE <<>>

\* Mutants of compressLevelsByPriceImpactThreshold: a single level goes
\* through the buckets like any other input; the buckets are emitted from the
\* deepest to the nearest.
compressLevelsByPriceImpactThreshold_NoSingleReturn(in, mid, sd) ==
    IF Len(in) = 0 THEN <<>>
    ELSE ThresholdBucket(in, mid, sd, 1)
           \o ThresholdBucket(in, mid, sd, 2)
           \o ThresholdBucket(in, mid, sd, 3)

compressLevelsByPriceImpactThreshold_DeepestFirst(in, mid, sd) ==
    IF Len(in) = 0 THEN <<>>
    ELSE IF Len(in) = 1 THEN in
    ELSE ThresholdBucket(in, mid, sd, 3)
           \o ThresholdBucket(in, mid, sd, 2)
           \o ThresholdBucket(in, mid, sd, 1)

compressLevelsByPriceImpactThreshold(in, mid, sd) ==
    IF Len(in) = 0 THEN <<>>
    ELSE IF Len(in) = 1 THEN in
    ELSE ThresholdBucket(in, mid, sd, 1)
           \o ThresholdBucket(in, mid, sd, 2)
           \o ThresholdBucket(in, mid, sd, 3)

(***************************************************************************)
(* Inputs of the compress functions.                                       *)
(***************************************************************************)
Sides == {"bid", "ask"}
Policies == {"equalVolume", "range", "threshold"}
NoBands == <<{}, {}, {}>>

SeqsUpTo(S, n) == UNION {[1..k -> S] : k \in 0..n}

\* Equal volume: a book side as the upstream sends it, best price first
\* (bids descending, asks ascending), every amount in 0..MaxEVAmount.
EVLevels(sd, amounts) ==
    [j \in 1..Len(amounts) |->
        <<Int2Rat(IF sd = "bid" THEN 100 - j ELSE 100 + j), Int2Rat(amounts[j])>>]

\* Impact policies: mid prices 2000 and 1999.5, and prices at these distances
\* from 2000, below it for bids and above it for asks (a negative distance
\* is a price on the other side of 2000).
\* Around mid = 2000 the distances are the impacts -0.1%, 0.05%, 0.1%, 0.2%,
\* 0.5%, 1%, 2%, 4% and 5%: every bound of a band or a bucket, and a price
\* before the first and after the last; around mid = 1999.5 the same prices
\* lie half a unit off every bound.
Mids == {<<2000, 1>>, <<3999, 2>>}
Distances == {-2, 1, 2, 4, 10, 20, 40, 80, 100}
PriceAt(sd, dist) == Int2Rat(IF sd = "bid" THEN 2000 - dist ELSE 2000 + dist)
ImpactLevel(sd) ==
    {<<Int2Rat(a), PriceAt(sd, dist)>> : a \in 0..MaxAmount, dist \in Distances}
ImpactLevelLists(sd) == SeqsUpTo(ImpactLevel(sd), MaxLevels)

NoData == <<>>
NoPairMap == <<>>

InitCompress ==
    /\ pc = "input"
    /\ policy \in Policies
    /\ side \in Sides
    /\ IF policy = "equalVolume"
       THEN /\ midPrice = NullMid
            /\ amountUnit \in AmountUnits
            /\ \E amounts \in SeqsUpTo(0..MaxEVAmount, MaxEVLevels) :
                   levels = EVLevels(side, amounts)
       ELSE /\ midPrice \in Mids
            /\ amountUnit = "1"
            /\ levels \in ImpactLevelLists(side)
    /\ compressed = <<>>
    /\ bands = NoBands
    /\ recompressed = <<>>
    /\ data = NoData
    /\ pairMap = NoPairMap
    /\ idx = 0
    /\ result = <<>>
    /\ mids = <<>>
    /\ created = <<>>
    /\ HandlerOff
    /\ UIOff

\* compressLevels(levels), equal-volume variant.
CallCompressLevels ==
    /\ pc = "input"
    /\ policy = "equalVolume"
    /\ compressed' = compressLevels(levels)
    /\ pc' = "done"
    /\ UNCHANGED <<policy, levels, midPrice, side, bands, recompressed, amountUnit, reshapeVars, handlerVars, uiVars>>

\* compressLevelsByPriceImpact(levels, midPrice, side), range variant.
CallCompressRange ==
    /\ pc = "input"
    /\ policy = "range"
    /\ compressed' = compressLevelsByPriceImpactRange(levels, midPrice, side)
    /\ bands' = [k \in 1..3 |-> BandLevels(levels, midPrice, side, priceImpacts[k])]
    /\ pc' = "done"
    /\ UNCHANGED <<policy, levels, midPrice, side, recompressed, amountUnit, reshapeVars, handlerVars, uiVars>>

\* compressLevelsByPriceImpact(levels, midPrice, side), threshold variant.
CallCompressThreshold ==
    /\ pc = "input"
    /\ policy = "threshold"
    /\ compressed' = compressLevelsByPriceImpactThreshold(levels, midPrice, side)
    /\ pc' = "done"
    /\ UNCHANGED <<policy, levels, midPrice, side, bands, recompressed, amountUnit, reshapeVars, handlerVars, uiVars>>

NextCompress ==
    \/ CallCompressLevels
    \/ CallCompressRange
    \/ CallCompressThreshold

SpecCompress == InitCompress /\ [][NextCompress]_vars

(***************************************************************************)
(* The threshold policy applied to what it has returned.  The inputs are   *)
(* longer (buckets of several levels next to other buckets) and drawn from *)
(* two prices per bucket: impacts -0.1% and 0.05%, 0.1% and 0.5%, 1% and   *)
(* 2% around mid = 2000.                                                   *)
(***************************************************************************)
MaxAgainLevels == 3
AgainDistances == {-2, 1, 2, 10, 20, 40}
AgainLevel(sd) ==
    {<<Int2Rat(a), PriceAt(sd, dist)>> : a \in 0..MaxAmount, dist \in AgainDistances}

InitAgain ==
    /\ pc = "input"
    /\ policy = "threshold"
    /\ side \in Sides
    /\ midPrice \in Mids
    /\ levels \in SeqsUpTo(AgainLevel(side), MaxAgainLevels)
    /\ compressed = <<>>
    /\ bands = NoBands
    /\ recompressed = <<>>
    /\ amountUnit = "1"
    /\ data = NoData
    /\ pairMap = NoPairMap
    /\ idx = 0
    /\ result = <<>>
    /\ mids = <<>>
    /\ created = <<>>
    /\ HandlerOff
    /\ UIOff

\* compressLevelsByPriceImpact(compressed, midPrice, side), threshold variant.
CallCompressThresholdAgain ==
    /\ pc = "done"
    /\ policy = "threshold"
    /\ recompressed' = compressLevelsByPriceImpactThreshold(compressed, midPrice, side)
    /\ pc' = "again"
    /\ UNCHANGED <<policy, levels, midPrice, side, compressed, bands, amountUnit,
                   reshapeVars, handlerVars, uiVars>>

NextAgain ==
    \/ CallCompressThreshold
    \/ CallCompressThresholdAgain

SpecAgain == InitAgain /\ [][NextAgain]_vars

(***************************************************************************)
(* reshapeOrderbook.  An entry is a record of the interface               *)
(* OrderbookEntry; its levels are pairs of numbers, read <<price, amount>> *)
(* by the equal-volume variant and <<amount, price>> by the other two.     *)
(***************************************************************************)
pairKey(entry) ==
    entry.base_symbol \o "/" \o entry.quote_symbol \o ":"
        \o entry.base_address \o "/" \o entry.quote_address

\* Mutant of calculateMidPrice: no single-sided fallback.
calculateMidPrice_NoFallback(bidEntry, askEntry, currentEntry) ==
    IF /\ bidEntry # NullEntry
       /\ askEntry # NullEntry
       /\ Len(bidEntry.levels) > 0
       /\ Len(askEntry.levels) > 0
    THEN RDiv(RAdd(bidEntry.levels[1][2], askEntry.levels[1][2]), Int2Rat(2))
    ELSE NullMid

calculateMidPrice(bidEntry, askEntry, currentEntry) ==
    IF /\ bidEntry # NullEntry
       /\ askEntry # NullEntry
       /\ Len(bidEntry.levels) > 0
       /\ Len(askEntry.levels) > 0
    THEN LET bestBid == bidEntry.levels[1][2]
             bestAsk == askEntry.levels[1][2]
         IN  RDiv(RAdd(bestBid, bestAsk), Int2Rat(2))
    ELSE IF Len(currentEntry.levels) > 0
         THEN currentEntry.levels[1][2]
         ELSE NullMid

\* The body of the first pass for one entry: the pair map after it.
GroupInto(pm, entry) ==
    LET key == pairKey(entry)
        pair == IF key \in DOMAIN pm THEN pm[key]
                ELSE [bid |-> NullEntry, ask |-> NullEntry]
        set == IF entry.side = "bid" THEN [pair EXCEPT !.bid = entry]
               ELSE [pair EXCEPT !.ask = entry]
    IN  [k \in DOMAIN pm \cup {key} |-> IF k = key THEN set ELSE pm[k]]

\* The mid price the second pass computes for an entry (NullMid also where
\* the pair is not in the map and the iteration is skipped).
MidFor(pm, entry) ==
    IF pairKey(entry) \in DOMAIN pm
    THEN calculateMidPrice(pm[pairKey(entry)].bid, pm[pairKey(entry)].ask, entry)
    ELSE NullMid

compressByImpact(p, in, mid, sd) ==
    IF p = "range"
    THEN compressLevelsByPriceImpactRange(in, mid, sd)
    ELSE compressLevelsByPriceImpactThreshold(in, mid, sd)

\* Mutant: an entry without a mid price is skipped instead of passed through.
Reduced_SkipsNullMid(p, pm, entry) ==
    IF pairKey(entry) \notin DOMAIN pm THEN <<>>
    ELSE IF MidFor(pm, entry) = NullMid THEN <<>>
    ELSE << [entry EXCEPT
                !.levels = compressByImpact(p, entry.levels, MidFor(pm, entry), entry.side)] >>

\* Mutant: the entry is put in front of the result instead of after it.
Pushed_InFront(res, entries) == entries \o res

\* result.push(...) of the second pass.
Pushed(res, entries) == res \o entries

\* The body of the second pass for one entry: what it pushes onto result.
Reduced(p, pm, entry) ==
    IF pairKey(entry) \notin DOMAIN pm THEN <<>>
    ELSE IF MidFor(pm, entry) = NullMid THEN <<entry>>
    ELSE << [entry EXCEPT
                !.levels = compressByImpact(p, entry.levels, MidFor(pm, entry), entry.side)] >>

\* Whether what the second pass pushes is an object it has created: the
\* entry itself is pushed where there is no mid price, an object literal
\* {...entry, levels} otherwise.
Created(p, pm, entry) ==
    IF pairKey(entry) \notin DOMAIN pm THEN <<>>
    ELSE IF MidFor(pm, entry) = NullMid THEN <<FALSE>>
    ELSE <<TRUE>>

\* Mutant: the reduced levels are assigned to the entry itself.
EntryAfter_LevelsAssigned(p, pm, entry) ==
    IF p = "equalVolume"
    THEN [entry EXCEPT !.levels = compressLevels(entry.levels)]
    ELSE IF pairKey(entry) \in DOMAIN pm /\ MidFor(pm, entry) # NullMid
    THEN [entry EXCEPT
             !.levels = compressByImpact(p, entry.levels, MidFor(pm, entry), entry.side)]
    ELSE entry

\* The input's entry object after the iteration that has read it: neither
\* the map callback nor the body of the second pass assigns to a field of
\* entry, to entry.levels or to a level.
EntryAfter(p, pm, entry) == entry

\* reshapeOrderbook of the equal-volume variant: data.map(...).
reshapeOrderbookEqualVolume(in) ==
    [i \in 1..Len(in) |-> [in[i] EXCEPT !.levels = compressLevels(in[i].levels)]]

(***************************************************************************)
(* Snapshots.  Three pairs; the first two differ in their symbols and      *)
(* agree in their key.  Level lists: none, one level, and three levels     *)
(* not sorted by price.  A snapshot holds a pair's side at most once.      *)
(***************************************************************************)
PairIds ==
    { [base_symbol |-> "A",   quote_symbol |-> "B/C", base_address |-> "0xa", quote_address |-> "0xc"],
      [base_symbol |-> "A/B", quote_symbol |-> "C",   base_address |-> "0xa", quote_address |-> "0xc"],
      [base_symbol |-> "A",   quote_symbol |-> "C",   base_address |-> "0xa", quote_address |-> "0xc"] }

RatLevels(s) == [j \in 1..Len(s) |-> <<Int2Rat(s[j][1]), Int2Rat(s[j][2])>>]

EntryLevelLists ==
    { <<>>,
      RatLevels(<< <<1, 2000>> >>),
      RatLevels(<< <<1, 2001>> >>),
      RatLevels(<< <<1, 2040>>, <<2, 1990>>, <<1, 2100>> >>) }

Entries ==
    { [base_symbol |-> id.base_symbol, quote_symbol |-> id.quote_symbol,
       base_address |-> id.base_address, quote_address |-> id.quote_address,
       side |-> sd, levels |-> ls] :
          id \in PairIds, sd \in Sides, ls \in EntryLevelLists }

PairOf(entry) ==
    <<entry.base_symbol, entry.quote_symbol, entry.base_address, entry.quote_address>>

Snapshots ==
    {s \in SeqsUpTo(Entries, MaxEntries) :
        \A i, j \in 1..Len(s) :
            (i # j /\ PairOf(s[i]) = PairOf(s[j])) => s[i].side # s[j].side}

Init ==
    /\ policy \in Policies
    /\ data \in Snapshots
    /\ pc = IF policy = "equalVolume" THEN "map" ELSE "group"
    /\ pairMap = NoPairMap
    /\ idx = 0
    /\ result = <<>>
    /\ mids = <<>>
    /\ created = <<>>
    /\ HandlerOff
    /\ UIOff
    /\ levels = <<>>
    /\ midPrice = NullMid
    /\ side = "bid"
    /\ compressed = <<>>
    /\ bands = NoBands
    /\ recompressed = <<>>
    /\ amountUnit = "1"

\* Equal-volume variant: the whole of reshapeOrderbook.
MapEntries ==
    /\ pc = "map"
    /\ result' = reshapeOrderbookEqualVolume(data)
    /\ created' = [i \in 1..Len(data) |-> TRUE]
    /\ data' = [i \in 1..Len(data) |-> EntryAfter(policy, pairMap, data[i])]
    /\ pc' = "done"
    /\ UNCHANGED <<policy, pairMap, idx, mids, compressVars, handlerVars, uiVars>>

\* First pass, one iteration.
GroupEntry ==
    /\ pc = "group"
    /\ idx < Len(data)
    /\ pairMap' = GroupInto(pairMap, data[idx + 1])
    /\ idx' = idx + 1
    /\ UNCHANGED <<policy, pc, data, result, mids, created, compressVars, handlerVars, uiVars>>

\* The first loop ends, the second begins.
EndGroup ==
    /\ pc = "group"
    /\ idx = Len(data)
    /\ pc' = "reduce"
    /\ idx' = 0
    /\ UNCHANGED <<policy, data, pairMap, result, mids, created, compressVars, handlerVars, uiVars>>

\* Second pass, one iteration.
ReduceEntry ==
    /\ pc = "reduce"
    /\ idx < Len(data)
    /\ result' = Pushed(result, Reduced(policy, pairMap, data[idx + 1]))
    /\ mids' = Append(mids, MidFor(pairMap, data[idx + 1]))
    /\ created' = created \o Created(policy, pairMap, data[idx + 1])
    /\ data' = [data EXCEPT ![idx + 1] = EntryAfter(policy, pairMap, data[idx + 1])]
    /\ idx' = idx + 1
    /\ UNCHANGED <<policy, pc, pairMap, compressVars, handlerVars, uiVars>>

\* return result
Return ==
    /\ pc = "reduce"
    /\ idx = Len(data)
    /\ pc' = "done"
    /\ UNCHANGED <<policy, data, pairMap, idx, result, mids, created, compressVars, handlerVars, uiVars>>

Next ==
    \/ MapEntries
    \/ GroupEntry
    \/ EndGroup
    \/ ReduceEntry
    \/ Return

Spec == Init /\ [][Next]_vars

(***************************************************************************)
(* The request handler of api/orderbook.ts, and the client call that       *)
(* reaches it.                                                             *)
(*                                                                         *)
(* A set of headers is a set of <<name, value>> pairs.  A JSON body that   *)
(* is an array is written [array |-> <<...>>], an error body               *)
(* [error |-> "..."].  Times are exact rationals, in milliseconds.         *)
(***************************************************************************)
Handlers == Policies \cup {"proxy"}

\* reshapeOrderbook as a whole, as the handler calls it.
RECURSIVE GroupAll(_, _, _)
GroupAll(d, i, pm) ==
    IF i > Len(d) THEN pm ELSE GroupAll(d, i + 1, GroupInto(pm, d[i]))

RECURSIVE ReduceAll(_, _, _, _, _)
ReduceAll(p, pm, d, i, res) ==
    IF i > Len(d) THEN res
    ELSE ReduceAll(p, pm, d, i + 1, Pushed(res, Reduced(p, pm, d[i])))

reshapeOrderbook(p, d) ==
    IF p = "equalVolume"
    THEN reshapeOrderbookEqualVolume(d)
    ELSE ReduceAll(p, GroupAll(d, 1, NoPairMap), d, 1, <<>>)

\* Requests.  A query without chain, with an empty chain, with a chain.
NoQuery == [n \in {} |-> ""]
Chains == {"ethereum", "bsc"}
Queries == {NoQuery, [chain |-> ""]} \cup {[chain |-> c] : c \in Chains}
Methods == {"GET", "POST", "OPTIONS"}

\* process.env without NATIVE_API_KEY, with an empty one, with a key.
NoEnv == [n \in {} |-> ""]
Keys == {"key-1", "key-2"}
Envs == {NoEnv, [NATIVE_API_KEY |-> ""]} \cup {[NATIVE_API_KEY |-> k] : k \in Keys}

\* !chain and !API_KEY: undefined or the empty string.
Missing(rec, name) == name \notin DOMAIN rec \/ rec[name] = ""

NoHeaders == {}
Response(status, headers, body) ==
    [status |-> status, headers |-> headers, body |-> body]

\* Mutant of Sent: the catch block sends nothing.
Sent_NotInCatch(s, response) ==
    IF response.status = 500 /\ response.body.error = "Internal server error"
    THEN s
    ELSE Append(s, response)

\* response.status(...).json(...): one more response is sent.
Sent(s, response) == Append(s, response)

\* Mutant of Rejection: the key is looked up before the chain.
Rejection_KeyBeforeChain(req, e) ==
    IF req.method # "GET"
    THEN Response(405, NoHeaders, [error |-> "Method not allowed"])
    ELSE IF Missing(e, "NATIVE_API_KEY")
    THEN Response(500, NoHeaders, [error |-> "API key not configured"])
    ELSE IF Missing(req.query, "chain")
    THEN Response(400, NoHeaders, [error |-> "Chain parameter is required"])
    ELSE None

\* The three early returns of the handler: the response, or None.
Rejection(req, e) ==
    IF req.method # "GET"
    THEN Response(405, NoHeaders, [error |-> "Method not allowed"])
    ELSE IF Missing(req.query, "chain")
    THEN Response(400, NoHeaders, [error |-> "Chain parameter is required"])
    ELSE IF Missing(e, "NATIVE_API_KEY")
    THEN Response(500, NoHeaders, [error |-> "API key not configured"])
    ELSE None

\* Math.random(): a number in [0, 1).
MathRandom == {Rat(0, 1), Rat(1, 10), Rat(1, 5), Rat(1, 2), Rat(9999, 10000)}

\* The timeout the handler gives to setTimeout: Math.random() * 10000 in
\* api/orderbook.ts and part_002, 2000 in part_001.
randomDelay(p, random) ==
    IF p = "proxy" THEN Int2Rat(2000) ELSE RMul(random, Int2Rat(10000))

NativeOrigin == "https://v2.api.native.org"
NativePath == "/swap-api-v2/v1/orderbook"
ProxyPath == "/api/orderbook"

Url(origin, path, chain) ==
    [origin |-> origin, path |-> path, query |-> [chain |-> chain]]

\* fetch(`https://v2.api.native.org/...?chain=${chain}`, {headers: {apiKey}})
UpstreamRequest(chain, key) ==
    [url |-> Url(NativeOrigin, NativePath, chain), headers |-> {<<"apiKey", key>>}]

\* What the upstream does: the fetch rejects, or it resolves with a status
\* and a body that is not JSON, is JSON but no array, or is a snapshot.
Rejected == [kind |-> "rejected"]
Statuses == {200, 201, 304, 401, 404, 500}
NotJson == [kind |-> "text"]
JsonObject == [kind |-> "object"]
JsonEmptyString == [kind |-> "string", data |-> <<>>]
JsonArray(d) == [kind |-> "array", data |-> d]
Bodies ==
    {NotJson, JsonObject, JsonEmptyString}
        \cup {JsonArray(d) : d \in SeqsUpTo(Entries, 1)}
Resolved(status, body) == [kind |-> "resolved", status |-> status, body |-> body]

\* Mutant of Ok: every status below 400 counts as a success.
Ok_Below400(status) == status < 400

\* apiResponse.ok
Ok(status) == status >= 200 /\ status <= 299

UpstreamOutcomes ==
    {Rejected}
        \cup {Resolved(st, NotJson) : st \in {st \in Statuses : ~Ok(st)}}
        \cup {Resolved(st, b) : st \in {st \in Statuses : Ok(st)}, b \in Bodies}

\* Mutant of FailedToFetch: the error body quotes the key in use.
FailedToFetch_QuotesKey(status) ==
    Response(status, NoHeaders,
             [error |-> "Failed to fetch orderbook data", apiKey |-> env.NATIVE_API_KEY])

\* The response to an upstream status that is not ok.
FailedToFetch(status) ==
    Response(status, NoHeaders, [error |-> "Failed to fetch orderbook data"])

\* The response of the catch block.
InternalServerError ==
    Response(500, NoHeaders, [error |-> "Internal server error"])

\* Mutant of Caught: the response carries the message of the error.
Caught_SendsMessage(error) ==
    Response(500, NoHeaders, [error |-> error])

\* catch (error): the error is logged and the fixed response is sent.
Caught(error) == InternalServerError

CorsHeaders ==
    { <<"Access-Control-Allow-Origin", "*">>,
      <<"Access-Control-Allow-Methods", "GET">>,
      <<"Access-Control-Allow-Headers", "Content-Type">> }

\* reshapeOrderbook throws on a body that is no array: data.map is not a
\* function, data is not iterable.  The empty string has no map either, but
\* it is iterable: the for..of loops of the impact variants run zero times
\* on it.  part_001 calls no engine.
ReshapeThrows(p, body) ==
    /\ p # "proxy"
    /\ \/ body.kind = "object"
       \/ body.kind = "string" /\ p = "equalVolume"

\* Mutant of OnDecoded: the decoded body is sent before it is reshaped.
OnDecoded_RespondsFirst(p, body) ==
    [steps |-> IF p = "proxy" THEN <<"decode", "respond">>
               ELSE <<"decode", "respond", "reshape">>,
     sent |-> Response(200, CorsHeaders,
                       IF body.kind = "array" THEN [array |-> body.data] ELSE body)]

\* From the decoded body to the 200 response: reshapeOrderbook(data), the
\* three setHeader calls, response.status(200).json(reshapedData).
OnDecoded(p, body) ==
    IF p = "proxy"
    THEN [steps |-> <<"decode", "respond">>,
          sent |-> Response(200, CorsHeaders,
                            IF body.kind = "array" THEN [array |-> body.data] ELSE body)]
    ELSE [steps |-> <<"decode", "reshape", "respond">>,
          sent |-> Response(200, CorsHeaders,
                            [array |-> reshapeOrderbook(p, body.data)])]

\* import.meta.env.VITE_API_KEY || ''
ViteKeys == {"", "key-1"}

\* fetchOrderbook of the UI: the URL and the headers it fetches with.
uiHeaders(PROD, API_KEY) == IF PROD THEN NoHeaders ELSE {<<"apiKey", API_KEY>>}

uiUrl(PROD, selectedChain) ==
    IF PROD
    THEN Url("", ProxyPath, selectedChain)
    ELSE Url(NativeOrigin, NativePath, selectedChain)

InitHandler ==
    /\ policy \in Handlers
    /\ env \in Envs
    /\ hpc = "idle"
    /\ client = None
    /\ request = None
    /\ delay = NoDelay
    /\ upstreamRequest = None
    /\ upstream = None
    /\ steps = <<>>
    /\ sent = <<>>
    /\ previous = None
    /\ pc = "handler"
    /\ levels = <<>>
    /\ midPrice = NullMid
    /\ side = "bid"
    /\ compressed = <<>>
    /\ bands = NoBands
    /\ recompressed = <<>>
    /\ amountUnit = "1"
    /\ data = NoData
    /\ pairMap = NoPairMap
    /\ idx = 0
    /\ result = <<>>
    /\ mids = <<>>
    /\ created = <<>>
    /\ UIOff

engineVars == <<pc, compressVars, reshapeVars>>

\* The UI fetches the orderbook.  In production mode the request goes to
\* the proxy; in development mode it goes to the upstream and the handler
\* is not involved.
fetchOrderbook ==
    /\ hpc = "idle"
    /\ client = None
    /\ \E PROD \in BOOLEAN, selectedChain \in Chains, API_KEY \in ViteKeys :
          /\ client' = [kind |-> "ui", PROD |-> PROD,
                        url |-> uiUrl(PROD, selectedChain),
                        headers |-> uiHeaders(PROD, API_KEY)]
          /\ IF uiUrl(PROD, selectedChain).path = ProxyPath
             THEN /\ request' = [method |-> "GET",
                                 query |-> uiUrl(PROD, selectedChain).query]
                  /\ hpc' = "received"
             ELSE UNCHANGED <<request, hpc>>
    /\ UNCHANGED <<policy, env, delay, upstreamRequest, upstream, steps, sent,
                   previous, engineVars, uiVars>>

\* Any other client calls the endpoint.
OtherRequest ==
    /\ hpc = "idle"
    /\ client = None
    /\ \E method \in Methods, query \in Queries :
          request' = [method |-> method, query |-> query]
    /\ client' = [kind |-> "other"]
    /\ hpc' = "received"
    /\ UNCHANGED <<policy, env, delay, upstreamRequest, upstream, steps, sent,
                   previous, engineVars, uiVars>>

\* One of the three early returns.
Reject ==
    /\ hpc = "received"
    /\ Rejection(request, env) # None
    /\ sent' = Sent(sent, Rejection(request, env))
    /\ hpc' = "end"
    /\ UNCHANGED <<policy, client, request, env, delay, upstreamRequest, upstream,
                   steps, previous, engineVars, uiVars>>

\* The request is valid: the handler sets the timer and awaits it.
StartDelay ==
    /\ hpc = "received"
    /\ Rejection(request, env) = None
    /\ \E random \in MathRandom : delay' = randomDelay(policy, random)
    /\ hpc' = "delay"
    /\ UNCHANGED <<policy, client, request, env, upstreamRequest, upstream,
                   steps, sent, previous, engineVars, uiVars>>

\* The timer fires: the handler resumes and issues the fetch.
TimerFires ==
    /\ hpc = "delay"
    /\ steps' = steps \o <<"delay", "fetch">>
    /\ upstreamRequest' = UpstreamRequest(request.query.chain, env.NATIVE_API_KEY)
    /\ hpc' = "fetch"
    /\ UNCHANGED <<policy, client, request, env, delay, upstream, sent,
                   previous, engineVars, uiVars>>

\* What the upstream can do now: anything for a first request, the same
\* again for the repeated one.
Outcomes == IF previous = None THEN UpstreamOutcomes ELSE {previous.upstream}

\* The fetch rejects: the catch block answers.
FetchRejects ==
    /\ hpc = "fetch"
    /\ Rejected \in Outcomes
    /\ upstream' = Rejected
    /\ sent' = Sent(sent, Caught("fetch failed"))
    /\ hpc' = "end"
    /\ UNCHANGED <<policy, client, request, env, delay, upstreamRequest, steps,
                   previous, engineVars, uiVars>>

\* The fetch resolves with a status that is not ok.
FetchNotOk ==
    /\ hpc = "fetch"
    /\ \E o \in Outcomes :
          /\ o.kind = "resolved"
          /\ ~Ok(o.status)
          /\ upstream' = o
          /\ sent' = Sent(sent, FailedToFetch(o.status))
    /\ hpc' = "end"
    /\ UNCHANGED <<policy, client, request, env, delay, upstreamRequest, steps,
                   previous, engineVars, uiVars>>

\* The fetch resolves with an ok status: the handler awaits the body.
FetchOk ==
    /\ hpc = "fetch"
    /\ \E o \in Outcomes :
          /\ o.kind = "resolved"
          /\ Ok(o.status)
          /\ upstream' = o
    /\ hpc' = "json"
    /\ UNCHANGED <<policy, client, request, env, delay, upstreamRequest, steps,
                   sent, previous, engineVars, uiVars>>

\* apiResponse.json() rejects: the catch block answers.
JsonRejects ==
    /\ hpc = "json"
    /\ upstream.body = NotJson
    /\ sent' = Sent(sent, Caught("Unexpected token"))
    /\ hpc' = "end"
    /\ UNCHANGED <<policy, client, request, env, delay, upstreamRequest, upstream,
                   steps, previous, engineVars, uiVars>>

\* The body is decoded and reshapeOrderbook throws: the catch block answers.
DecodedAndThrown ==
    /\ hpc = "json"
    /\ upstream.body # NotJson
    /\ ReshapeThrows(policy, upstream.body)
    /\ steps' = steps \o <<"decode">>
    /\ sent' = Sent(sent, Caught("TypeError"))
    /\ hpc' = "end"
    /\ UNCHANGED <<policy, client, request, env, delay, upstreamRequest, upstream,
                   previous, engineVars, uiVars>>

\* The body is decoded, reshaped and sent.
DecodedAndSent ==
    /\ hpc = "json"
    /\ upstream.body # NotJson
    /\ ~ReshapeThrows(policy, upstream.body)
    /\ steps' = steps \o OnDecoded(policy, upstream.body).steps
    /\ sent' = Sent(sent, OnDecoded(policy, upstream.body).sent)
    /\ hpc' = "end"
    /\ UNCHANGED <<policy, client, request, env, delay, upstreamRequest, upstream,
                   previous, engineVars, uiVars>>

\* The deployment gets another NATIVE_API_KEY, and the same request comes
\* again and meets the same upstream behaviour.
RepeatWithOtherKey ==
    /\ hpc = "end"
    /\ previous = None
    /\ ~Missing(env, "NATIVE_API_KEY")
    /\ previous' = [env |-> env, upstream |-> upstream, sent |-> sent]
    /\ \E k \in Keys \ {env.NATIVE_API_KEY} : env' = [NATIVE_API_KEY |-> k]
    /\ hpc' = "received"
    /\ delay' = NoDelay
    /\ upstreamRequest' = None
    /\ upstream' = None
    /\ steps' = <<>>
    /\ sent' = <<>>
    /\ UNCHANGED <<policy, client, request, engineVars, uiVars>>

NextHandler ==
    \/ fetchOrderbook
    \/ OtherRequest
    \/ Reject
    \/ StartDelay
    \/ TimerFires
    \/ FetchRejects
    \/ FetchNotOk
    \/ FetchOk
    \/ JsonRejects
    \/ DecodedAndThrown
    \/ DecodedAndSent
    \/ RepeatWithOtherKey

SpecHandler == InitHandler /\ [][NextHandler]_vars

\* The same handler where the event loop runs the invocation, the timer
\* fires, the fetch settles and the reading of the body settles.
SpecHandlerFair ==
    /\ InitHandler
    /\ [][NextHandler]_vars
    /\ WF_vars(Reject \/ StartDelay)
    /\ WF_vars(TimerFires)
    /\ WF_vars(FetchRejects \/ FetchNotOk \/ FetchOk)
    /\ WF_vars(JsonRejects \/ DecodedAndThrown \/ DecodedAndSent)

(***************************************************************************)
(* The UI: the Orderbook component (src/unnamed/part_000).                 *)
(*                                                                         *)
(* A render is a closure over the component's state; an effect or an       *)
(* async function started by a render keeps seeing that render's values.   *)
(* One action is one task of the browser's event loop: the handler of the  *)
(* event, the render it causes and the effects of that render.  The mount  *)
(* takes two: the first commit with its effects, and the render of the     *)
(* state updates those effects have queued.                                *)
(*                                                                         *)
(* Texts that the component takes apart (pair names, pair parameters) are  *)
(* sequences of characters.                                                *)
(***************************************************************************)
MaxRequests == 3

\* null for a pair, for an error message and for a date; no timer.
NoPair == <<>>
NoError == ""
NoDate == 0
NoTimer == 0

Replaced(text, from, to) ==
    [i \in 1..Len(text) |-> IF text[i] = from THEN to ELSE text[i]]

encodePair(pair) == IF pair = NoPair THEN NoPair ELSE Replaced(pair, "/", "-")
decodePair(pair) == IF pair = NoPair THEN NoPair ELSE Replaced(pair, "-", "/")

\* `${entry.base_symbol}/${entry.quote_symbol}`
pairName(entry) == entry.base_symbol \o <<"/">> \o entry.quote_symbol

UIChains == {"ethereum", "bsc", "arbitrum", "base"}

\* What the endpoint serves per chain.  The levels are left out: the
\* component passes them to the chart and the tables only.
UIEntry(base, quote, sd) ==
    [base_symbol |-> <<base>>, quote_symbol |-> <<quote>>, side |-> sd]

Book(chain) ==
    CASE chain = "ethereum" ->
             <<UIEntry("A", "B", "bid"), UIEntry("A", "B", "ask"), UIEntry("B", "C", "bid")>>
      [] chain = "bsc" -> <<UIEntry("B", "C", "bid"), UIEntry("A", "B", "bid")>>
      [] chain = "arbitrum" -> <<UIEntry("A", "B", "ask")>>
      [] OTHER -> <<>>

\* The search part of the URL: the chain and the pair parameter, each empty
\* where it is absent.
Locations ==
    [chain : {"", "ethereum", "bsc", "solana"},
     pair : {NoPair, <<"A", "-", "B">>, <<"B", "-", "C">>, <<"C", "-", "A">>}]

\* A fetch in flight: the function that awaits it and the selectedChain and
\* selectedPair of the render that started it.
Request(id, fn, s) ==
    [id |-> id, fn |-> fn, selectedChain |-> s.selectedChain,
     selectedPair |-> s.selectedPair]

\* The body served for a request.  The book moves all the time: every body
\* is another snapshot, told from the others by the request it answers.
NoSnapshot == [request |-> 0, chain |-> "", array |-> <<>>]
ResponseTo(r) ==
    [request |-> r.id, chain |-> r.selectedChain, array |-> Book(r.selectedChain)]

\* How a fetch settles: resolved ok with a JSON array, resolved not ok,
\* rejected.
Settlements == {"ok", "notOk", "rejected"}

\* err.message: of the Error the function throws itself, and of the
\* TypeError of a rejected fetch.
Message(outcome) ==
    IF outcome = "notOk" THEN "Failed to fetch orderbook data" ELSE "Failed to fetch"

Includes(seq, x) == \E j \in 1..Len(seq) : seq[j] = x

\* Array.from(availablePairs): the names of the bid entries, each once, in
\* the order of their first entry.
availablePairs(array) ==
    LET seen[n \in 0..Len(array)] ==
            IF n = 0 THEN <<>>
            ELSE IF array[n].side = "bid" /\ ~Includes(seen[n - 1], pairName(array[n]))
                 THEN Append(seen[n - 1], pairName(array[n]))
                 ELSE seen[n - 1]
    IN  seen[Len(array)]

\* The options of the pair select: per pair of tokens, in either order, the
\* name of its first bid entry.
getUniquePairs(array) ==
    LET Tokens(e) == {e.base_symbol, e.quote_symbol}
        pairs[n \in 0..Len(array)] ==
            IF n = 0 THEN <<>>
            ELSE IF /\ array[n].side = "bid"
                    /\ ~\E j \in 1..(n - 1) :
                           array[j].side = "bid" /\ Tokens(array[j]) = Tokens(array[n])
                 THEN Append(pairs[n - 1], pairName(array[n]))
                 ELSE pairs[n - 1]
    IN  pairs[Len(array)]

\* useState: the state of the first render.
InitialState ==
    [orderbookData |-> NoSnapshot, error |-> NoError, loading |-> TRUE,
     selectedPair |-> NoPair, selectedChain |-> "ethereum",
     lastUpdate |-> NoDate, isAutoUpdate |-> TRUE]

\* Effect "read URL parameters": the state updates it queues.
ReadUrl(loc, s) ==
    [selectedChain |-> IF loc.chain # "" /\ loc.chain \in UIChains
                       THEN loc.chain ELSE s.selectedChain,
     selectedPair |-> IF decodePair(loc.pair) # NoPair
                      THEN decodePair(loc.pair) ELSE s.selectedPair]

\* Effect "update URL" of a render with the given chain and pair, where
\* isInitialMount.current is initialMount.
updateUrl(loc, initialMount, chain, pair) ==
    IF initialMount THEN loc
    ELSE [chain |-> chain, pair |-> encodePair(pair)]

\* setInterval's handle: a handle that is not in use.
FreeTimer(ivs) == CHOOSE id \in 1..(Cardinality(ivs) + 1) : \A i \in ivs : i.id # id

\* Mutant: the effect returns no cleanup.
autoRefresh_NoCleanup(ivs, cl, chain, auto) ==
    IF ~auto THEN [intervals |-> ivs, cleanup |-> NoTimer]
    ELSE [intervals |-> ivs \cup {[id |-> FreeTimer(ivs), selectedChain |-> chain]},
          cleanup |-> NoTimer]

\* Effect "auto-refresh" re-run: the cleanup of its previous run, then its
\* body in a render with the given chain and isAutoUpdate.  An interval
\* calls the fetchOrderbook of that render.
autoRefresh(ivs, cl, chain, auto) ==
    LET cleared == {i \in ivs : i.id # cl}
    IN  IF ~auto THEN [intervals |-> cleared, cleanup |-> NoTimer]
        ELSE [intervals |-> cleared \cup {[id |-> FreeTimer(cleared),
                                            selectedChain |-> chain]},
              cleanup |-> FreeTimer(cleared)]

\* Mutant: the catch block drops the data.
AfterFetchOrderbook_DropsData(s, r, outcome, date) ==
    IF outcome = "ok"
    THEN [s EXCEPT !.orderbookData = ResponseTo(r), !.lastUpdate = date,
                   !.error = NoError, !.loading = FALSE]
    ELSE [s EXCEPT !.orderbookData = NoSnapshot, !.error = Message(outcome),
                   !.loading = FALSE]

\* fetchOrderbook from its await on: the state after its state updates.
AfterFetchOrderbook(s, r, outcome, date) ==
    IF outcome = "ok"
    THEN [s EXCEPT !.orderbookData = ResponseTo(r), !.lastUpdate = date,
                   !.error = NoError, !.loading = FALSE]
    ELSE [s EXCEPT !.error = Message(outcome), !.loading = FALSE]

\* initializePairs from its await on.  selectedPair is the one of the render
\* that started the function (r), the state it updates is the current one.
AfterInitializePairs(s, r, outcome) ==
    IF outcome = "ok"
    THEN LET pairsArray == availablePairs(ResponseTo(r).array)
         IN  [s EXCEPT !.orderbookData = ResponseTo(r),
                       !.selectedPair =
                           IF r.selectedPair # NoPair /\ Includes(pairsArray, r.selectedPair)
                           THEN @
                           ELSE IF Len(pairsArray) > 0 THEN pairsArray[1] ELSE NoPair,
                       !.error = NoError, !.loading = FALSE]
    ELSE [s EXCEPT !.error = Message(outcome), !.selectedPair = NoPair,
                   !.loading = FALSE]

InitUI ==
    /\ upc = "rendered"
    /\ opened \in Locations
    /\ location = opened
    /\ state = InitialState
    /\ isInitialMount = TRUE
    /\ pending = None
    /\ intervals = {}
    /\ cleanup = NoTimer
    /\ inflight = {}
    /\ issued = 0
    /\ settled = {}
    /\ touched = FALSE
    /\ policy = "proxy"
    /\ pc = "ui"
    /\ levels = <<>>
    /\ midPrice = NullMid
    /\ side = "bid"
    /\ compressed = <<>>
    /\ bands = NoBands
    /\ recompressed = <<>>
    /\ amountUnit = "1"
    /\ data = NoData
    /\ pairMap = NoPairMap
    /\ idx = 0
    /\ result = <<>>
    /\ mids = <<>>
    /\ created = <<>>
    /\ HandlerOff

serverVars == <<policy, engineVars, handlerVars>>

\* The first commit: the effects of the first render, in the order of
\* their definition.
Mount ==
    /\ upc = "rendered"
    /\ pending' = ReadUrl(location, state)
    /\ isInitialMount' = FALSE
    /\ location' = updateUrl(location, isInitialMount', state.selectedChain,
                             state.selectedPair)
    /\ inflight' = {Request(1, "initializePairs", state)}
    /\ issued' = 1
    /\ intervals' = autoRefresh(intervals, cleanup, state.selectedChain,
                                state.isAutoUpdate).intervals
    /\ cleanup' = autoRefresh(intervals, cleanup, state.selectedChain,
                              state.isAutoUpdate).cleanup
    /\ upc' = "mounted"
    /\ UNCHANGED <<opened, state, settled, touched, serverVars>>

\* A render with state t replaces the current one, while the fetches fl are
\* in flight: the effects whose dependencies have changed run.
Commit(t, fl) ==
    LET chainChanged == t.selectedChain # state.selectedChain
        pairChanged == t.selectedPair # state.selectedPair
        autoChanged == t.isAutoUpdate # state.isAutoUpdate
    IN  /\ state' = t
        /\ location' = IF chainChanged \/ pairChanged
                       THEN updateUrl(location, isInitialMount, t.selectedChain,
                                      t.selectedPair)
                       ELSE location
        /\ inflight' = IF chainChanged
                       THEN fl \cup {Request(issued + 1, "initializePairs", t)}
                       ELSE fl
        /\ issued' = IF chainChanged THEN issued + 1 ELSE issued
        /\ intervals' = IF chainChanged \/ autoChanged
                        THEN autoRefresh(intervals, cleanup, t.selectedChain,
                                         t.isAutoUpdate).intervals
                        ELSE intervals
        /\ cleanup' = IF chainChanged \/ autoChanged
                      THEN autoRefresh(intervals, cleanup, t.selectedChain,
                                       t.isAutoUpdate).cleanup
                      ELSE cleanup

\* The render of the state updates queued by the first commit.
Rerender ==
    /\ upc = "mounted"
    /\ Commit([state EXCEPT !.selectedChain = pending.selectedChain,
                            !.selectedPair = pending.selectedPair], inflight)
    /\ pending' = None
    /\ upc' = "ready"
    /\ UNCHANGED <<opened, isInitialMount, settled, touched, serverVars>>

\* The controls are rendered.
Controls == upc = "ready" /\ ~state.loading /\ state.error = NoError

\* The chain select changes.
SelectChain ==
    /\ Controls
    /\ issued < MaxRequests
    /\ \E chain \in UIChains \ {state.selectedChain} :
          Commit([state EXCEPT !.selectedChain = chain], inflight)
    /\ touched' = TRUE
    /\ UNCHANGED <<upc, opened, isInitialMount, pending, settled, serverVars>>

\* The pair select changes.
SelectPair ==
    /\ Controls
    /\ \E j \in 1..Len(getUniquePairs(state.orderbookData.array)) :
          /\ getUniquePairs(state.orderbookData.array)[j] # state.selectedPair
          /\ Commit([state EXCEPT
                        !.selectedPair = getUniquePairs(state.orderbookData.array)[j]],
                    inflight)
    /\ touched' = TRUE
    /\ UNCHANGED <<upc, opened, isInitialMount, pending, settled, serverVars>>

\* Pause / Resume Auto-Update.
ToggleAutoUpdate ==
    /\ Controls
    /\ Commit([state EXCEPT !.isAutoUpdate = ~state.isAutoUpdate], inflight)
    /\ touched' = TRUE
    /\ UNCHANGED <<upc, opened, isInitialMount, pending, settled, serverVars>>

\* Update Now: the fetchOrderbook of the current render.
UpdateNow ==
    /\ Controls
    /\ ~state.isAutoUpdate
    /\ issued < MaxRequests
    /\ inflight' = inflight \cup {Request(issued + 1, "fetchOrderbook", state)}
    /\ issued' = issued + 1
    /\ touched' = TRUE
    /\ UNCHANGED <<upc, opened, location, state, isInitialMount, pending,
                   intervals, cleanup, settled, serverVars>>

\* An interval fires: the fetchOrderbook of the render that set it.
IntervalFires ==
    /\ upc = "ready"
    /\ issued < MaxRequests
    /\ \E i \in intervals :
          inflight' = inflight \cup
              {Request(issued + 1, "fetchOrderbook",
                       [state EXCEPT !.selectedChain = i.selectedChain])}
    /\ issued' = issued + 1
    /\ UNCHANGED <<upc, opened, location, state, isInitialMount, pending,
                   intervals, cleanup, settled, touched, serverVars>>

\* The fetch of a fetchOrderbook settles.
FetchOrderbookSettles ==
    /\ upc = "ready"
    /\ \E r \in inflight, outcome \in Settlements :
          /\ r.fn = "fetchOrderbook"
          /\ Commit(AfterFetchOrderbook(state, r, outcome, Cardinality(settled) + 1),
                    inflight \ {r})
          /\ settled' = settled \cup {[request |-> r, outcome |-> outcome]}
    /\ UNCHANGED <<upc, opened, isInitialMount, pending, touched, serverVars>>

\* The fetch of an initializePairs settles.
InitializePairsSettles ==
    /\ upc = "ready"
    /\ \E r \in inflight, outcome \in Settlements :
          /\ r.fn = "initializePairs"
          /\ Commit(AfterInitializePairs(state, r, outcome), inflight \ {r})
          /\ settled' = settled \cup {[request |-> r, outcome |-> outcome]}
    /\ UNCHANGED <<upc, opened, isInitialMount, pending, touched, serverVars>>

NextUI ==
    \/ Mount
    \/ Rerender
    \/ SelectChain
    \/ SelectPair
    \/ ToggleAutoUpdate
    \/ UpdateNow
    \/ IntervalFires
    \/ FetchOrderbookSettles
    \/ InitializePairsSettles

SpecUI == InitUI /\ [][NextUI]_vars

(***************************************************************************)
(* Vocabulary of the properties.                                           *)
(***************************************************************************)
\* How far a price lies from mid on the far side of the book.
DistanceFromMid(price, mid, sd) ==
    IF sd = "bid" THEN RSub(mid, price) ELSE RSub(price, mid)

\* impact < t and impact >= t, for impact = DistanceFromMid / mid and mid > 0.
ImpactBelow(price, mid, sd, t) == RLt(DistanceFromMid(price, mid, sd), RMul(t, mid))
ImpactAtLeast(price, mid, sd, t) == RLe(RMul(t, mid), DistanceFromMid(price, mid, sd))

\* The amount, and the amount-weighted average price, of the levels of in
\* (each <<amount, price>>) whose index is in js.
AmountOf(in, js) ==
    LET amt[n \in 0..Len(in)] ==
            IF n = 0 THEN Zero
            ELSE IF n \in js THEN RAdd(amt[n - 1], in[n][1]) ELSE amt[n - 1]
    IN  amt[Len(in)]
NotionalOf(in, js) ==
    LET ntl[n \in 0..Len(in)] ==
            IF n = 0 THEN Zero
            ELSE IF n \in js THEN RAdd(ntl[n - 1], RMul(in[n][1], in[n][2]))
                 ELSE ntl[n - 1]
    IN  ntl[Len(in)]
AggregateOf(in, js) ==
    IF AmountOf(in, js) = Zero THEN <<>>
    ELSE << <<AmountOf(in, js), RDiv(NotionalOf(in, js), AmountOf(in, js))>> >>

Ran(p) == pc = "done" /\ policy = p

(***************************************************************************)
(* C1.  Equal-volume policy conserves volume: for every input that         *)
(* compressLevels compresses (length >= 3, amounts >= 0) the amounts of    *)
(* the returned levels sum to the amounts of the input levels.             *)
(* Violated: when the rest of a level that spans buckets ends inside the   *)
(* last bucket, the bucket is pushed before it is full and its             *)
(* accumulators are kept; it is pushed a second time when a later level    *)
(* fills it, e.g. amounts (1, 5, 1) give buckets 3.5, 2.5 and 3.5.         *)
(***************************************************************************)
C1_EqualVolumeConservesVolume ==
    (Ran("equalVolume") /\ Len(levels) >= 3)
        => SumField(compressed, 2) = SumField(levels, 2)

(***************************************************************************)
(* C2.  Threshold policy conserves volume: the amounts of the returned     *)
(* levels sum to the amounts of the input levels, for every input.         *)
(***************************************************************************)
C2_ThresholdConservesVolume ==
    Ran("threshold") => SumField(compressed, 1) = SumField(levels, 1)

\* Two levels with positive amounts are merged into one bucket.
C2_Witness ==
    /\ Ran("threshold")
    /\ Len(levels) = 2
    /\ Len(compressed) = 1
    /\ \A j \in 1..2 : RLt(Zero, levels[j][1])
    /\ compressed[1][1] = <<2, 1>>

(***************************************************************************)
(* C3.  Threshold policy bucket assignment: for an input of length >= 2    *)
(* every level contributes its whole amount to exactly one of three        *)
(* buckets, impact < 0.1%, 0.1% <= impact < 1%, impact >= 1%; the output   *)
(* is one level <<bucket amount, amount-weighted average price>> per       *)
(* bucket of positive amount, in this order, and nothing else.             *)
(***************************************************************************)
C3_Bucket(in, mid, sd, b) ==
    {j \in 1..Len(in) :
        CASE b = 1 -> ImpactBelow(in[j][2], mid, sd, <<1, 1000>>)
          [] b = 2 -> /\ ImpactAtLeast(in[j][2], mid, sd, <<1, 1000>>)
                      /\ ImpactBelow(in[j][2], mid, sd, <<1, 100>>)
          [] b = 3 -> ImpactAtLeast(in[j][2], mid, sd, <<1, 100>>)}

C3_ThresholdBucketAssignment ==
    (Ran("threshold") /\ Len(levels) >= 2)
        => /\ compressed = AggregateOf(levels, C3_Bucket(levels, midPrice, side, 1))
                             \o AggregateOf(levels, C3_Bucket(levels, midPrice, side, 2))
                             \o AggregateOf(levels, C3_Bucket(levels, midPrice, side, 3))
           /\ Len(compressed) <= 3

\* Scenario E at scale 20: mid 2000, bids (1, 1999) and (1, 1900), impacts
\* 0.05% and 5%, are returned as two buckets.
C3_Witness ==
    /\ Ran("threshold")
    /\ midPrice = <<2000, 1>>
    /\ side = "bid"
    /\ levels = << <<<<1, 1>>, <<1999, 1>>>>, <<<<1, 1>>, <<1900, 1>>>> >>
    /\ compressed = << <<<<1, 1>>, <<1999, 1>>>>, <<<<1, 1>>, <<1900, 1>>>> >>

(***************************************************************************)
(* C4.  Range policy band membership, as claimed: a level is accumulated   *)
(* into band i exactly when its price lies between targetPrice_i and the   *)
(* previous band's targetPrice (for the first band: between targetPrice_i  *)
(* and mid).  Violated: the code accumulates the levels beyond             *)
(* targetPrice_i, up to mid * (1 -+ 2i).                                   *)
(***************************************************************************)
C4_PreviousTarget(mid, sd, k) ==
    IF k = 1 THEN mid ELSE targetPrice(mid, sd, priceImpacts[k - 1])

C4_Between(price, a, b) ==
    \/ RLe(a, price) /\ RLe(price, b)
    \/ RLe(b, price) /\ RLe(price, a)

C4_BandBetweenAdjacentTargets ==
    Ran("range")
        => \A k \in 1..3 :
              bands[k] = {j \in 1..Len(levels) :
                             C4_Between(levels[j][2],
                                        targetPrice(midPrice, side, priceImpacts[k]),
                                        C4_PreviousTarget(midPrice, side, k))}

(***************************************************************************)
(* C4 as amended.  A level is accumulated into band i (i = 0.1%, 0.5%, 2%) *)
(* exactly when i <= impact < 2i, impact being (mid - price)/mid for bids  *)
(* and (price - mid)/mid for asks: its price lies between targetPrice_i    *)
(* (included) and mid * (1 -+ 2i) (excluded), on the far side of           *)
(* targetPrice_i.                                                          *)
(***************************************************************************)
C4_BandIsImpactFromIToTwoI ==
    Ran("range")
        => \A k \in 1..3 :
              bands[k] = {j \in 1..Len(levels) :
                  /\ ImpactAtLeast(levels[j][2], midPrice, side, priceImpacts[k])
                  /\ ImpactBelow(levels[j][2], midPrice, side,
                                 RMul(Int2Rat(2), priceImpacts[k]))}

\* One level short of the first target (in no band) and one beyond it (band 1).
C4_Witness ==
    /\ Ran("range")
    /\ Len(levels) = 2
    /\ ImpactBelow(levels[1][2], midPrice, side, priceImpacts[1])
    /\ RLt(Zero, DistanceFromMid(levels[1][2], midPrice, side))
    /\ bands = <<{2}, {}, {}>>

(***************************************************************************)
(* C5.  Range policy double counting, as claimed: for some level list,     *)
(* mid price and side one input level is accumulated into two or more      *)
(* bands, so that the output total exceeds the input total.  Violated:     *)
(* no input of the model is such.                                          *)
(***************************************************************************)
C5_SomeLevelIsDoubleCounted ==
    Ran("range")
        => \E sd \in Sides, mid \in Mids :
              \E in \in ImpactLevelLists(sd) :
                  /\ \E j \in 1..Len(in) :
                         Cardinality({k \in 1..3 :
                             j \in BandLevels(in, mid, sd, priceImpacts[k])}) >= 2
                  /\ RLt(SumField(in, 1),
                         SumField(compressLevelsByPriceImpactRange(in, mid, sd), 1))

(***************************************************************************)
(* C5 as amended.  No input level is accumulated into more than one band:  *)
(* the bands 0.1%..0.2%, 0.5%..1% and 2%..4% are disjoint, and the output  *)
(* total never exceeds the input total.                                    *)
(***************************************************************************)
C5_NoLevelIsDoubleCounted ==
    Ran("range")
        => /\ \A j \in 1..Len(levels) :
                  Cardinality({k \in 1..3 : j \in bands[k]}) <= 1
           /\ RLe(SumField(compressed, 1), SumField(levels, 1))

\* Two levels of positive amount in two different bands, each counted once.
C5_Witness ==
    /\ Ran("range")
    /\ Len(levels) = 2
    /\ RLt(Zero, levels[1][1])
    /\ RLt(Zero, levels[2][1])
    /\ \E k1, k2 \in 1..3 : k1 # k2 /\ 1 \in bands[k1] /\ 2 \in bands[k2]
    /\ SumField(compressed, 1) = SumField(levels, 1)

(***************************************************************************)
(* C6.  Range policy leaks volume: the output total is the total of the    *)
(* levels that fall into a band, so whenever an input level of positive    *)
(* amount falls into none of the three bands the output total is strictly  *)
(* smaller than the input total; such inputs exist (C6_Witness).           *)
(***************************************************************************)
C6_InNoBand(j) == \A k \in 1..3 : j \notin bands[k]

C6_RangeLeaksVolume ==
    Ran("range")
        => /\ SumField(compressed, 1)
                = AmountOf(levels, bands[1] \cup bands[2] \cup bands[3])
           /\ (\E j \in 1..Len(levels) : C6_InNoBand(j) /\ RLt(Zero, levels[j][1]))
                  => RLt(SumField(compressed, 1), SumField(levels, 1))

\* A level of positive amount between two bands is dropped, the other is kept.
C6_Witness ==
    /\ Ran("range")
    /\ Len(levels) = 2
    /\ C6_InNoBand(1)
    /\ RLt(Zero, levels[1][1])
    /\ ImpactAtLeast(levels[1][2], midPrice, side, <<2, 1000>>)
    /\ ImpactBelow(levels[1][2], midPrice, side, <<5, 1000>>)
    /\ Len(compressed) = 1
    /\ RLt(SumField(compressed, 1), SumField(levels, 1))

(***************************************************************************)
(* Properties of reshapeOrderbook.                                         *)
(***************************************************************************)
ByImpact == policy \in {"range", "threshold"}

(***************************************************************************)
(* C7.  Mid price resolution: calculateMidPrice returns (price of the bid  *)
(* entry's first level + price of the ask entry's first level) / 2 when    *)
(* both entries exist and each has a level; otherwise the price of the     *)
(* current entry's first level when it has one; otherwise null.  The       *)
(* first level is read as it stands, whatever the order of the levels.     *)
(***************************************************************************)
C7_Expected(pair, entry) ==
    CASE /\ pair.bid # NullEntry /\ pair.ask # NullEntry
         /\ pair.bid.levels # <<>> /\ pair.ask.levels # <<>>
            -> <<pair.bid.levels[1][2][1] * pair.ask.levels[1][2][2]
                   + pair.ask.levels[1][2][1] * pair.bid.levels[1][2][2],
                 2 * pair.bid.levels[1][2][2] * pair.ask.levels[1][2][2]>>
      [] OTHER -> IF entry.levels # <<>> THEN Head(entry.levels)[2] ELSE NullMid

C7_SameNumber(x, y) ==
    IF x = NullMid \/ y = NullMid THEN x = y ELSE x[1] * y[2] = y[1] * x[2]

C7_MidPriceResolution ==
    ByImpact
        => \A i \in 1..Len(mids) :
              C7_SameNumber(mids[i], C7_Expected(pairMap[pairKey(data[i])], data[i]))

\* Scenario D at scale 20: first bid level at 2000 and first ask level at 2040
\* give 2020 for both entries; the ask's lower level at 1990 is not looked at.
C7_Witness ==
    /\ ByImpact
    /\ pc = "done"
    /\ Len(data) = 2
    /\ Len(data[1].levels) = 1
    /\ Len(data[2].levels) = 3
    /\ data[1].side = "bid" /\ data[1].levels[1][2] = <<2000, 1>>
    /\ data[2].side = "ask" /\ data[2].levels[1][2] = <<2040, 1>>
    /\ mids = << <<2020, 1>>, <<2020, 1>> >>

\* Scenario D, second half: a bid alone, first level at 2000, gives 2000.
C7_WitnessFallback ==
    /\ ByImpact
    /\ pc = "done"
    /\ Len(data) = 1
    /\ data[1].side = "bid"
    /\ mids = << <<2000, 1>> >>

(***************************************************************************)
(* C8.  reshapeOrderbook (all three variants) returns a snapshot with the  *)
(* same number of entries in the same order; the entry at every index has  *)
(* the base_symbol, quote_symbol, base_address, quote_address and side of  *)
(* the input entry at that index.  Only levels may differ.                 *)
(***************************************************************************)
C8_SameIdentity(e, f) ==
    /\ e.base_symbol = f.base_symbol
    /\ e.quote_symbol = f.quote_symbol
    /\ e.base_address = f.base_address
    /\ e.quote_address = f.quote_address
    /\ e.side = f.side

C8_EntriesKeepIdentityAndOrder ==
    pc = "done"
        => /\ Len(result) = Len(data)
           /\ \A i \in 1..Len(data) : C8_SameIdentity(result[i], data[i])

\* Three entries of three different pairs go through, the levels of one changed.
C8_Witness ==
    /\ pc = "done"
    /\ Len(data) = 3
    /\ Len(result) = 3
    /\ Cardinality({PairOf(data[i]) : i \in 1..3}) = 3
    /\ \E i \in 1..3 : result[i].levels # data[i].levels

(***************************************************************************)
(* C9.  In the price-impact reshapeOrderbook, whenever calculateMidPrice   *)
(* yields null for an entry, the entry is in the output with its levels    *)
(* as in the input, and the entries after it are still processed.          *)
(***************************************************************************)
C9_NullMidPassesThrough ==
    ByImpact
        => /\ Len(result) = Len(mids)
           /\ \A i \in 1..Len(mids) : mids[i] = NullMid => result[i] = data[i]
           /\ pc = "done" => Len(mids) = Len(data)

\* The first entry has no mid price; the second is reduced after it.
C9_Witness ==
    /\ ByImpact
    /\ pc = "done"
    /\ Len(data) >= 2
    /\ mids[1] = NullMid
    /\ mids[2] # NullMid
    /\ result[1] = data[1]
    /\ result[2].levels # data[2].levels

(***************************************************************************)
(* C10.  Mid price is resolved per pair: in a snapshot where each pair     *)
(* has at most one bid and at most one ask entry, the pair grouping is     *)
(* complete before any entry is reduced, and whenever both entries of a    *)
(* pair are reduced against a mid price they are reduced against the same  *)
(* value, computed from the first levels of both sides as they are in the  *)
(* input, whatever the order of the two entries.                           *)
(* Violated: two pairs whose symbols differ can have the same pairKey, and *)
(* then the entries of one are reduced against the other's first levels.   *)
(***************************************************************************)
C10_OnePerSide ==
    \A i, j \in 1..Len(data) :
        (i # j /\ PairOf(data[i]) = PairOf(data[j])) => data[i].side # data[j].side

C10_Grouped ==
    \A i \in 1..Len(data) :
        /\ pairKey(data[i]) \in DOMAIN pairMap
        /\ pairMap[pairKey(data[i])][data[i].side] # NullEntry

C10_MidOfPair(i, j) ==
    LET b == IF data[i].side = "bid" THEN data[i] ELSE data[j]
        a == IF data[i].side = "ask" THEN data[i] ELSE data[j]
    IN  RDiv(RAdd(b.levels[1][2], a.levels[1][2]), Int2Rat(2))

C10_MidResolvedPerPair ==
    (ByImpact /\ C10_OnePerSide)
        => /\ (pc \in {"reduce", "done"} \/ Len(result) > 0) => C10_Grouped
           /\ \A i, j \in 1..Len(mids) :
                 ( /\ i # j
                   /\ PairOf(data[i]) = PairOf(data[j])
                   /\ mids[i] # NullMid
                   /\ mids[j] # NullMid )
                     => /\ mids[i] = mids[j]
                        /\ data[i].levels # <<>>
                        /\ data[j].levels # <<>>
                        /\ mids[i] = C10_MidOfPair(i, j)

(***************************************************************************)
(* C11.  Pass-through boundary.  compressLevels returns its input          *)
(* unchanged for every input of length 0, 1 or 2, and the threshold        *)
(* compressLevelsByPriceImpact returns its input unchanged for every input *)
(* of length 0 or 1, whatever the mid price and the side.                  *)
(***************************************************************************)
C11_PassThroughBoundary ==
    /\ (Ran("equalVolume") /\ Len(levels) <= 2) => compressed = levels
    /\ (Ran("threshold") /\ Len(levels) <= 1) => compressed = levels

\* A single level of amount zero, which no bucket would emit, comes back.
C11_Witness ==
    /\ Ran("threshold")
    /\ Len(levels) = 1
    /\ levels[1][1] = Zero
    /\ compressed = levels

(***************************************************************************)
(* C12.  Output size of the equal-volume policy.  compressLevels returns   *)
(* exactly 2 levels for every input of 3 to 5 levels and exactly 3 levels  *)
(* for every input of more than 5 levels, and never more levels than       *)
(* targetCount.                                                            *)
(***************************************************************************)
C12_EqualVolumeOutputSize ==
    Ran("equalVolume") =>
        /\ (Len(levels) >= 3 /\ Len(levels) <= 5) => Len(compressed) = 2
        /\ Len(levels) > 5 => Len(compressed) = 3
        /\ Len(levels) >= 1 => Len(compressed) <= TargetCount(Len(levels))

(***************************************************************************)
(* C13.  The equal-volume policy splits by equal volume.  For every input  *)
(* that is compressed (more levels than targetCount) and whose total       *)
(* amount is positive, every output bucket holds exactly                   *)
(* totalAmount / targetCount.                                              *)
(***************************************************************************)
C13_AmountPerLevel ==
    RDiv(SumField(levels, 2), Int2Rat(TargetCount(Len(levels))))

C13_EveryBucketHoldsAmountPerLevel ==
    (/\ Ran("equalVolume")
     /\ Len(levels) > TargetCount(Len(levels))
     /\ RLt(Zero, SumField(levels, 2)))
        => \A k \in 1..Len(compressed) : compressed[k][2] = C13_AmountPerLevel

(***************************************************************************)
(* C14.  The output of the impact policies is in ascending impact.  For    *)
(* the threshold and the range policy, the impact of the price of output   *)
(* level k is strictly smaller than the impact of the price of output      *)
(* level k+1 (bid prices strictly decrease, ask prices strictly increase), *)
(* whatever the order of the input levels.                                 *)
(***************************************************************************)
C14_OutputInAscendingImpact ==
    (Ran("threshold") \/ Ran("range")) =>
        \A k \in 1..(Len(compressed) - 1) :
            /\ RLt(priceImpact(compressed[k][2], midPrice, side),
                   priceImpact(compressed[k + 1][2], midPrice, side))
            /\ IF side = "bid"
               THEN RLt(compressed[k + 1][2], compressed[k][2])
               ELSE RLt(compressed[k][2], compressed[k + 1][2])

\* Two output levels from an input that lists the deeper level first.
C14_Witness ==
    /\ Ran("threshold")
    /\ Len(levels) = 2
    /\ RLt(priceImpact(levels[2][2], midPrice, side),
           priceImpact(levels[1][2], midPrice, side))
    /\ Len(compressed) = 2

(***************************************************************************)
(* C15.  reshapeOrderbook does not mutate its input.  No step of           *)
(* reshapeOrderbook, in any variant, changes an entry of the input         *)
(* snapshot or a level of an entry, and wherever an element of the result  *)
(* carries levels other than the input entry's, that element is an object  *)
(* the function has created, not the input's entry object.                 *)
(***************************************************************************)
C15_ReducedInNewEntries ==
    \A i \in 1..Len(result) :
        /\ i <= Len(data)
        /\ i <= Len(created)
        /\ result[i].levels # data[i].levels => created[i]
        /\ ~created[i] => result[i] = data[i]

C15_InputIsNotMutated ==
    [](pc = "done" => C15_ReducedInNewEntries) /\ [][data' = data]_vars

\* Returned with one entry reduced into a new object and one entry passed on
\* as the input's own object.
C15_Witness ==
    /\ pc = "done"
    /\ ByImpact
    /\ \E i, j \in 1..Len(result) :
           /\ created[i]
           /\ result[i].levels # data[i].levels
           /\ ~created[j]

(***************************************************************************)
(* Vocabulary of the handler properties.                                   *)
(***************************************************************************)
IsPrefix(s, t) == Len(s) <= Len(t) /\ \A i \in 1..Len(s) : s[i] = t[i]
Did(step) == \E i \in 1..Len(steps) : steps[i] = step
Answered == hpc = "end"
ErrorResponse(status, message) ==
    [status |-> status, headers |-> {}, body |-> [error |-> message]]

(***************************************************************************)
(* C16.  Validation order of the handler.  A request that is not a GET is  *)
(* answered 405 whatever its chain and the key configuration; a GET        *)
(* without chain is answered 400 whatever the key configuration; a GET     *)
(* with chain but without NATIVE_API_KEY is answered 500 'API key not      *)
(* configured'.  In the three cases no delay is awaited, the upstream is   *)
(* not contacted and the engine is not invoked.                            *)
(***************************************************************************)
C16_OnlyAnswer(status, message) ==
    /\ hpc \in {"received", "end"}
    /\ delay = NoDelay
    /\ upstreamRequest = None
    /\ upstream = None
    /\ steps = <<>>
    /\ Answered => sent = <<ErrorResponse(status, message)>>

C16_ValidationOrder ==
    request # None =>
        /\ request.method # "GET"
              => C16_OnlyAnswer(405, "Method not allowed")
        /\ (request.method = "GET" /\ Missing(request.query, "chain"))
              => C16_OnlyAnswer(400, "Chain parameter is required")
        /\ (/\ request.method = "GET"
            /\ ~Missing(request.query, "chain")
            /\ Missing(env, "NATIVE_API_KEY"))
              => C16_OnlyAnswer(500, "API key not configured")

\* A GET that lacks both the chain and the key: answered 400, not 500.
C16_Witness ==
    /\ Answered
    /\ request.method = "GET"
    /\ Missing(request.query, "chain")
    /\ Missing(env, "NATIVE_API_KEY")
    /\ sent = <<ErrorResponse(400, "Chain parameter is required")>>

(***************************************************************************)
(* C17.  Per-request ordering.  For a request that passes validation the   *)
(* steps of the handler occur in the order delay completed, fetch issued,  *)
(* body decoded, reshapeOrderbook, 200 response: the fetch is not issued   *)
(* while the timer is pending, and a 200 response is sent only after all   *)
(* the steps before it.                                                    *)
(***************************************************************************)
C17_Order == <<"delay", "fetch", "decode", "reshape", "respond">>

C17_PerRequestOrdering ==
    policy \in Policies =>
        /\ IsPrefix(steps, C17_Order)
        /\ hpc \in {"idle", "received", "delay"}
              => (steps = <<>> /\ upstreamRequest = None)
        /\ upstreamRequest # None => (delay # NoDelay /\ Did("delay"))
        /\ (\E i \in 1..Len(sent) : sent[i].status = 200) => steps = C17_Order

C17_Witness ==
    /\ policy \in Policies
    /\ Answered
    /\ Len(sent) = 1
    /\ sent[1].status = 200
    /\ steps = C17_Order

(***************************************************************************)
(* C18.  The engine is invoked only on a successful upstream result.  If   *)
(* the fetch rejects or resolves with a status outside 200..299,           *)
(* reshapeOrderbook is not called; a status outside 200..299 is answered   *)
(* with that status and {error: 'Failed to fetch orderbook data'}.         *)
(***************************************************************************)
C18_Is2xx(status) == status \in 200..299

C18_EngineOnlyOnSuccess ==
    upstream # None =>
        /\ (upstream.kind = "rejected" \/ ~C18_Is2xx(upstream.status))
              => ~Did("reshape")
        /\ (/\ upstream.kind = "resolved"
            /\ ~C18_Is2xx(upstream.status)
            /\ Answered)
              => sent = <<ErrorResponse(upstream.status,
                                        "Failed to fetch orderbook data")>>

C18_Witness ==
    /\ policy \in Policies
    /\ Answered
    /\ upstream # None
    /\ upstream.kind = "resolved"
    /\ upstream.status = 304
    /\ sent = <<ErrorResponse(304, "Failed to fetch orderbook data")>>

(***************************************************************************)
(* C19.  The proxy always waits 2 seconds.  For every request that passes  *)
(* validation, the delay the handler awaits before it fetches from the     *)
(* upstream is 2000 ms.                                                    *)
(***************************************************************************)
C19_DelayIsTwoSeconds ==
    delay # NoDelay => delay = Int2Rat(2000)

C21_Raised ==
    /\ upstream # None
    /\ \/ upstream.kind = "rejected"
       \/ /\ C18_Is2xx(upstream.status)
          /\ \/ upstream.body.kind = "text"
             \/ ReshapeThrows(policy, upstream.body)

C21_ExceptionsAnswered500 ==
    (Answered /\ C21_Raised) =>
        /\ sent = <<ErrorResponse(500, "Internal server error")>>
        /\ ~Did("reshape")
        /\ ~Did("respond")

\* reshapeOrderbook has thrown on a decoded body that is no array.
C21_Witness ==
    /\ Answered
    /\ policy \in Policies
    /\ upstream # None
    /\ upstream.kind = "resolved"
    /\ upstream.body.kind = "object"
    /\ Did("decode")
    /\ sent = <<ErrorResponse(500, "Internal server error")>>

(***************************************************************************)
(* C22.  Exactly one response per invocation.  On every path exactly one   *)
(* response is sent and nothing is sent after it; and, where the timer     *)
(* fires and the upstream settles, every request is eventually answered.   *)
(***************************************************************************)
C22_OneResponse ==
    /\ Len(sent) <= 1
    /\ Answered <=> Len(sent) = 1

C22_NothingAfter ==
    Len(sent) = 1 => (sent' = sent \/ (previous = None /\ previous' # None))

C22_ExactlyOneResponse ==
    /\ []C22_OneResponse
    /\ [][C22_NothingAfter]_vars
    /\ (hpc = "received") ~> Answered

\* A request answered 200 after the timer fired and the upstream settled,
\* twice in a row with one response each time.
C22_Witness ==
    /\ Answered
    /\ Len(sent) = 1
    /\ sent[1].status = 200
    /\ previous # None
    /\ previous.sent = sent

(***************************************************************************)
(* C23.  URL pair honoured on load.  Where the page is opened with a pair  *)
(* parameter naming a pair of the data fetched for the selected chain, the *)
(* selected pair is that pair once the mount effects have run and          *)
(* initializePairs has finished, whether the URL chain is the default      *)
(* chain or another valid chain.                                           *)
(* Violated: the initializePairs started by the first render sees that     *)
(* render's selectedPair, null, and selects the first pair of the          *)
(* ethereum data; the initializePairs of the URL chain then keeps what it  *)
(* finds.                                                                  *)
(***************************************************************************)
C23_Initialized ==
    /\ upc = "ready"
    /\ ~touched
    /\ ~\E r \in inflight : r.fn = "initializePairs"

C23_Fetched(chain) ==
    \E x \in settled :
        /\ x.request.fn = "initializePairs"
        /\ x.request.selectedChain = chain
        /\ x.outcome = "ok"

C23_UrlPairHonoured ==
    (/\ C23_Initialized
     /\ C23_Fetched(state.selectedChain)
     /\ Includes(availablePairs(Book(state.selectedChain)), decodePair(opened.pair)))
        => state.selectedPair = decodePair(opened.pair)

(***************************************************************************)
(* C24.  The URL is not rewritten on initial mount: in the first commit    *)
(* the URL-update effect does nothing, so that the parameters the page was *)
(* opened with are not replaced by the default state (chain 'ethereum', no *)
(* pair) before they are in the state.                                     *)
(* Violated: the effect that reads the URL runs first in the same commit   *)
(* and sets isInitialMount.current to false, so the URL-update effect      *)
(* writes the default state.                                               *)
(***************************************************************************)
C24_UrlKeptOnMount ==
    upc = "mounted" => location = opened

(***************************************************************************)
(* C25.  No stale snapshot.  A response is written to orderbookData only   *)
(* if it answers a request for the selected chain and no response to a     *)
(* later request has been applied; hence, once nothing is in flight,       *)
(* orderbookData is the response to the latest request for the selected    *)
(* chain.                                                                  *)
(* Violated: fetchOrderbook and initializePairs write whatever response    *)
(* arrives, in the order of arrival.                                       *)
(***************************************************************************)
C25_WriteIsFresh ==
    state'.orderbookData # state.orderbookData =>
        /\ state'.orderbookData.chain = state'.selectedChain
        /\ state'.orderbookData.request > state.orderbookData.request

C25_Latest(r) ==
    /\ r.selectedChain = state.selectedChain
    /\ \A x \in settled :
          x.request.selectedChain = state.selectedChain => x.request.id <= r.id

C25_SettledIsLatest ==
    (upc = "ready" /\ inflight = {}) =>
        \A x \in settled :
            (C25_Latest(x.request) /\ x.outcome = "ok")
                => state.orderbookData.request = x.request.id

C25_NoStaleSnapshot ==
    /\ [][C25_WriteIsFresh]_vars
    /\ []C25_SettledIsLatest

(***************************************************************************)
(* C26.  Polling timer.  After any toggles and chain changes at most one   *)
(* interval is active: none while auto-update is paused, exactly one while *)
(* it is on, and that one fetches for the selected chain.                  *)
(***************************************************************************)
C26_PollingTimer ==
    upc \in {"mounted", "ready"} =>
        /\ Cardinality(intervals) <= 1
        /\ state.isAutoUpdate <=> Cardinality(intervals) = 1
        /\ \A i \in intervals : i.selectedChain = state.selectedChain

\* Paused on a chain the user has selected: the interval of the first chain
\* and the one of the selected chain are both gone.
C26_Witness ==
    /\ upc = "ready"
    /\ opened.chain = ""
    /\ state.selectedChain = "arbitrum"
    /\ ~state.isAutoUpdate
    /\ intervals = {}
    /\ issued = MaxRequests

(***************************************************************************)
(* C27.  A failed refresh leaves the data untouched: a fetchOrderbook that *)
(* fails sets error to the message of the failure and loading to false,    *)
(* and changes none of orderbookData, selectedPair, selectedChain and      *)
(* lastUpdate; and loading, once false, stays false.                       *)
(***************************************************************************)
C27_FailedRefresh ==
    \A x \in settled' \ settled :
        (x.request.fn = "fetchOrderbook" /\ x.outcome # "ok") =>
            /\ state'.error = Message(x.outcome)
            /\ ~state'.loading
            /\ state'.orderbookData = state.orderbookData
            /\ state'.selectedPair = state.selectedPair
            /\ state'.selectedChain = state.selectedChain
            /\ state'.lastUpdate = state.lastUpdate

C27_LoadingStaysFalse ==
    ~state.loading => ~state'.loading

C27_FailedRefreshLeavesData ==
    [][C27_FailedRefresh /\ C27_LoadingStaysFalse]_vars

\* A refresh has failed after data had been shown.
C27_Witness ==
    /\ upc = "ready"
    /\ \E x \in settled :
          /\ x.request.fn = "fetchOrderbook"
          /\ x.outcome = "notOk"
    /\ state.error = "Failed to fetch orderbook data"
    /\ state.orderbookData # NoSnapshot
    /\ state.lastUpdate # NoDate
    /\ state.selectedPair # NoPair
    /\ ~state.loading

(***************************************************************************)
(* C28.  Range policy: a level whose impact from mid is below 0.1% never   *)
(* appears in the output.  In particular, where the mid price of an entry  *)
(* is the price of its own first level (nothing on the other side), the    *)
(* first level is in no band, and an entry of that one level is reduced to *)
(* an empty level list.                                                    *)
(* "Never appears": the reduced levels are those of the input without its  *)
(* low-impact levels, and hold no more than the amount of the others.      *)
(***************************************************************************)
C28_Kept(in, mid, sd) ==
    SelectSeq(in, LAMBDA l : ImpactAtLeast(l[2], mid, sd, priceImpacts[1]))

C28_OneSided(entry) ==
    LET pair == pairMap[pairKey(entry)]
        other == IF entry.side = "bid" THEN pair.ask ELSE pair.bid
    IN  /\ Len(entry.levels) > 0
        /\ \/ other = NullEntry
           \/ Len(other.levels) = 0

C28_LowImpactNeverInOutput ==
    (policy = "range" /\ pc \in {"reduce", "done"}) =>
        \A i \in 1..Len(result) :
            mids[i] # NullMid =>
                LET in == data[i].levels
                    sd == data[i].side
                    out == result[i].levels
                IN  /\ out = compressLevelsByPriceImpactRange(
                                 C28_Kept(in, mids[i], sd), mids[i], sd)
                    /\ RLe(SumField(out, 1), SumField(C28_Kept(in, mids[i], sd), 1))
                    /\ C28_OneSided(data[i]) =>
                          /\ mids[i] = in[1][2]
                          /\ RLe(SumField(out, 1), SumField(Tail(in), 1))
                          /\ Len(in) = 1 => out = <<>>

\* A one-sided entry of one level reduced to nothing; a one-sided entry of
\* three levels reduced to the one band its later levels lie in; and an
\* entry with both sides whose only level lies 0.025% from mid.
C28_Witness ==
    /\ policy = "range"
    /\ pc = "done"
    /\ \E i \in 1..Len(result) :
          /\ C28_OneSided(data[i])
          /\ Len(data[i].levels) = 1
          /\ result[i].levels = <<>>
    /\ \E i \in 1..Len(result) :
          /\ ~C28_OneSided(data[i])
          /\ Len(data[i].levels) = 1
          /\ mids[i] # NullMid
          /\ RLt(Zero, DistanceFromMid(data[i].levels[1][2], mids[i], data[i].side))
          /\ RLt(Zero, data[i].levels[1][1])
          /\ result[i].levels = <<>>

(***************************************************************************)
(* C29.  The threshold policy is idempotent for a fixed mid and side: for  *)
(* levels with amounts >= 0 and mid > 0, compressing the compressed levels *)
(* again returns them unchanged (the weighted average price of a bucket    *)
(* lies in the bucket's own impact range).                                 *)
(***************************************************************************)
C29_ThresholdIdempotent ==
    pc = "again" => recompressed = compressed

\* Three levels at three prices, two of them merged into one bucket next to
\* the bucket of the third, and the two buckets compressed again.
C29_Witness ==
    /\ pc = "again"
    /\ Len(levels) = 3
    /\ \A i, j \in 1..3 : i # j => levels[i][2] # levels[j][2]
    /\ \A j \in 1..3 : RLt(Zero, levels[j][1])
    /\ Len(compressed) = 2
    /\ \A j \in 1..3 : compressed[1][2] # levels[j][2]
    /\ recompressed = compressed

(***************************************************************************)
(* C30.  Equal-volume bucket prices are volume-weighted averages: for      *)
(* every input that compressLevels compresses, the price of a bucket with  *)
(* a positive amount is the average, weighted by sub-amount, of the prices *)
(* of the levels credited to it, and so lies between the smallest and the  *)
(* largest input price; the price of a bucket with amount 0 is the raw     *)
(* price of a level.                                                       *)
(* Violated: the last bucket is pushed without its accumulators being      *)
(* reset (C1); when the inner loop runs once more for what remains of the  *)
(* level, the amount is overwritten and the price sum is added to, and the *)
(* next bucket gets the price sum of both over the amount of the rest.     *)
(***************************************************************************)
C30_Between(p, in) ==
    /\ \E j \in 1..Len(in) : RLe(in[j][1], p)
    /\ \E j \in 1..Len(in) : RLe(p, in[j][1])

C30_BucketPricesAreAverages ==
    (Ran("equalVolume") /\ Len(levels) >= 3) =>
        \A b \in 1..Len(compressed) :
            IF RLt(Zero, compressed[b][2])
            THEN C30_Between(compressed[b][1], levels)
            ELSE \E j \in 1..Len(levels) : compressed[b][1] = levels[j][1]
====
